---- MODULE Spec2Model ----
(***************************************************************************)
(* A model of keymapper's low-level input layer:                           *)
(*   - VirtualDevice / VirtualDeviceImpl (src/unnamed/part_000), the       *)
(*     Karabiner virtual HID client with its connection state machine;     *)
(*   - Devices (src/src/server/windows/Devices.cpp), the device roster     *)
(*     partitioned by the grab filters;                                    *)
(*   - Interception (same file), the capture thread and the identity maps. *)
(* Each part has its own next-state relation over the shared variables.    *)
(***************************************************************************)
EXTENDS Integers, Sequences, FiniteSets, TLC

VARIABLES
  \* ---- VirtualDevice / VirtualDeviceImpl (part_000) ----
  m_impl,          \* VirtualDevice::m_impl holds an implementation
  m_state,         \* VirtualDeviceImpl::m_state
  m_client,        \* VirtualDeviceImpl::m_client holds a client
  m_keyboard,      \* m_keyboard.keys
  m_consumer,      \* m_consumer.keys
  m_desktop,       \* m_desktop.keys
  m_fn_key_hold,   \* VirtualDeviceImpl::m_fn_key_hold
  vd_pc,           \* where the host thread is inside VirtualDevice
  close_ctx,       \* who runs close(): "reset" (create line 165), "failed" (line 168)
  create_i,        \* loop counter i of create()
  close_i,         \* loop counter i of close()
  vd_create,       \* the running create(), or the one that returned last: what it
                   \* loaded, its polls, its result; cleared by the next call
  vd_last,         \* the last send call: operation, state at the call, result, posted
  num_reports,     \* number of async_post_report calls so far
  last_report,     \* the last report posted to the current client
  last_signal,     \* the last service signal handled after Disconnected, if any
  \* ---- Devices (Devices.cpp) ----
  m_device_handles,          \* Devices::m_device_handles (captured)
  m_device_descs,            \* Devices::m_device_descs
  m_ignored_device_handles,  \* Devices::m_ignored_device_handles
  m_ignored_device_descs,    \* Devices::m_ignored_device_descs
  m_grab_filters,            \* Devices::m_grab_filters
  os_present,      \* handles the OS has announced and not yet removed
  attached,        \* descriptor resolved at attach, per known handle
  roster_last,     \* the last roster operation, its argument, the partition before
  \* ---- Devices and Interception: driver, capture thread ----
  m_window,        \* Devices::m_window is set
  m_interception,  \* Devices::m_interception holds an Interception
  registered,      \* RegisterRawInputDevices has succeeded: the OS notifies
  m_shutdown,      \* Interception::m_shutdown
  m_handle_with_hardware_ids,  \* Interception::m_handle_with_hardware_ids
  m_handle_by_device,          \* Interception::m_handle_by_device (0: no entry)
  m_device_by_handle,          \* Interception::m_device_by_handle (0: no entry)
  m_last_keyboard, \* Interception::m_last_keyboard
  m_last_mouse,    \* Interception::m_last_mouse
  host_pc,         \* where the host thread is inside Devices
  host_arg,        \* the device of the running on_device_attached
  join_ctx,        \* who runs ~Interception: "shutdown" or "initialize"
  th_pc,           \* where the capture thread is inside thread_func
  th_device,       \* thread_func: device
  th_stroke,       \* thread_func: stroke
  msg,             \* the message SendMessageA is waiting on
  msg_reply,       \* the window procedure's result for it
  received,        \* strokes received from the driver, with what became of them
  injected,        \* interception_send calls: of the capture thread for the
                   \* n-th stroke received, of the host thread with n = 0
  delivered,       \* SendMessageA calls of the capture thread
  dev_ret,         \* what the last Devices::initialize returned, and whether
                   \* it got as far as the setup (line 324)
  \* ---- the free functions of Devices.cpp, applied to one input ----
  fn_pc,           \* the function being applied, "none" when there is none
  fn_in,           \* its argument
  fn_out,          \* its result, once it has returned
  \* ---- main (part_001): the update loop ----
  main_pc,         \* "loop" inside the update loop, "left" after a break
  output_buffer,   \* main: output_buffer
  uinput,          \* what was written to uinput_fd, in order
  flushed,         \* how much of it flush_events has flushed
  applied,         \* the events given to stage->apply_input, in order
  returned,        \* what the calls of apply_input returned, concatenated
  iteration        \* the last iteration of the loop: what was read, what it did

vdVars == << m_impl, m_state, m_client, m_keyboard, m_consumer, m_desktop,
             m_fn_key_hold, vd_pc, close_ctx, create_i, close_i, vd_create,
             vd_last, num_reports, last_report, last_signal >>

rosterVars == << m_device_handles, m_device_descs, m_ignored_device_handles,
                 m_ignored_device_descs, m_grab_filters, os_present, attached,
                 roster_last >>

icVars == << m_window, m_interception, registered, m_shutdown,
             m_handle_with_hardware_ids, m_handle_by_device,
             m_device_by_handle, m_last_keyboard, m_last_mouse, host_pc,
             host_arg, join_ctx, th_pc, th_device, th_stroke, msg, msg_reply,
             received, injected, delivered, dev_ret >>

fnVars == << fn_pc, fn_in, fn_out >>

mainVars == << main_pc, output_buffer, uinput, flushed, applied, returned,
              iteration >>

vars == << vdVars, rosterVars, icVars, fnVars, mainVars >>

\* everything but the virtual device
notVD == << rosterVars, icVars, fnVars, mainVars >>

\* everything but the devices and the driver
notDevices == << vdVars, fnVars, mainVars >>

\* ---------------------------------------------------------------------------
\* Bounds of the model
\* ---------------------------------------------------------------------------
MaxReports == 3
NumHandles == 2
MaxStrokes == 2
MaxRegistered == 2
MaxSends == 1
MaxIterations == 3

\* ---------------------------------------------------------------------------
\* Program constants
\* ---------------------------------------------------------------------------
CreatePolls == 30
ClosePolls == 20
kHIDPage_KeyboardOrKeypad == 7
kHIDUsage_KeyboardA == 4
kHIDUsage_KeyboardRightGUI == 231
FnPage == 255
INTERCEPTION_MAX_KEYBOARD == 10
INTERCEPTION_MAX_DEVICE == 20
INTERCEPTION_KEY_UP == 1
INTERCEPTION_KEY_E0 == 2
INTERCEPTION_MOUSE_WHEEL == 1024
INTERCEPTION_MOUSE_HWHEEL == 2048
WHEEL_DELTA == 120
ExtendedBits == 57344

\* enum class State (part_000 line 14); m_state{ } starts as the first enumerator
State == { "initializing", "connected", "disconnected" }

\* Key codes of the keys the model sends (enum class Key, runtime/KeyEvent.h)
Key == [ A |-> 4, F1 |-> 58, F2 |-> 59, F3 |-> 60, F4 |-> 61, F5 |-> 62,
         F6 |-> 63, F7 |-> 64, F8 |-> 65, F9 |-> 66, F10 |-> 67, F11 |-> 68,
         F12 |-> 69, none |-> 0,
         ButtonLeft |-> 61441, ButtonRight |-> 61442, ButtonMiddle |-> 61443,
         ButtonBack |-> 61444, ButtonForward |-> 61445,
         WheelUp |-> 61446, WheelDown |-> 61447, WheelLeft |-> 61448,
         WheelRight |-> 61449 ]
TestKeys == { Key.A, Key.F1, Key.F2, Key.F6 }
KeyState == { "Down", "Up" }
KeyEvents == [ key : TestKeys, state : KeyState ]

NoReport == [ category |-> "none", keys |-> {} ]
NoCall == [ op |-> "none", state |-> "initializing", impl |-> FALSE,
            ret |-> FALSE, posted |-> FALSE ]
NoCreate == [ seen |-> "none", final |-> "none", polls |-> 0,
              result |-> FALSE, failed |-> FALSE, returned |-> FALSE ]
NoSignal == "none"

\* ---------------------------------------------------------------------------
\* VirtualDeviceImpl: the service signal handlers connected in create()
\* They run one at a time on the shared dispatcher thread.
\* ---------------------------------------------------------------------------
SignalNames == { "connected", "warning_reported", "connect_failed", "closed",
                 "error_occurred", "driver_version_mismatched",
                 "virtual_hid_keyboard_ready" }

\* a ready handler that stores Connected without looking at the state
SignalStore_ReadyUnchecked(name, arg, st) ==
  CASE name \in { "connect_failed", "closed", "error_occurred" } -> "disconnected"
    [] name = "driver_version_mismatched" -> IF arg THEN "disconnected" ELSE st
    [] name = "virtual_hid_keyboard_ready" -> IF arg THEN "connected" ELSE st
    [] OTHER -> st

\* the state a handler stores, given the state it finds and its argument
\* (lines 35-67)
SignalStore(name, arg, st) ==
  CASE name = "connect_failed" -> "disconnected"
    [] name = "closed" -> "disconnected"
    [] name = "error_occurred" -> "disconnected"
    [] name = "driver_version_mismatched" -> IF arg THEN "disconnected" ELSE st
    [] name = "virtual_hid_keyboard_ready" ->
         IF st = "initializing" /\ arg THEN "connected" ELSE st
    [] OTHER -> st

IsFailure(name, arg) ==
  \/ name \in { "connect_failed", "closed", "error_occurred" }
  \/ name = "driver_version_mismatched" /\ arg

Signal(name, arg) ==
  /\ m_client
  /\ m_state' = SignalStore(name, arg, m_state)
  /\ last_signal' = IF m_state # "disconnected" THEN NoSignal
                     ELSE IF name = "virtual_hid_keyboard_ready" /\ arg
                          THEN "ready" ELSE "other"
  /\ vd_create' = IF vd_pc \in { "create_poll", "create_final" }
                     /\ m_state = "initializing" /\ IsFailure(name, arg)
                  THEN [ vd_create EXCEPT !.failed = TRUE ]
                  ELSE vd_create
  /\ UNCHANGED << m_impl, m_client, m_keyboard, m_consumer, m_desktop,
                  m_fn_key_hold, vd_pc, close_ctx, create_i, close_i,
                  vd_last, num_reports, last_report >>

ServiceSignal == \E name \in SignalNames, arg \in BOOLEAN : Signal(name, arg)

\* ---------------------------------------------------------------------------
\* VirtualDeviceImpl::create and close, VirtualDevice::create
\* ---------------------------------------------------------------------------

\* a wait loop of create() without its bound
CreateLoopCond_Unbounded(st, i) == st = "initializing"

\* condition of the wait loop of create() (line 70)
CreateLoopCond(st, i) == st = "initializing" /\ i < CreatePolls

\* return value of create() (line 73)
CreateResult(st) == st = "connected"

\* a wait loop of close() without its bound
CloseLoopCond_Unbounded(st, i) == st = "connected"

\* condition of the wait loop of close() (line 80)
CloseLoopCond(st, i) == st = "connected" /\ i < ClosePolls

\* m_client after close() (line 83)
CloseClient(client) == FALSE

\* std::make_unique<VirtualDeviceImpl>() followed by the body of
\* VirtualDeviceImpl::create up to async_start (lines 166, 33-69)
ConstructAndStart ==
  /\ m_state' = "initializing"
  /\ m_keyboard' = {}
  /\ m_consumer' = {}
  /\ m_desktop' = {}
  /\ m_fn_key_hold' = FALSE
  /\ m_client' = TRUE
  /\ create_i' = 0
  /\ vd_create' = NoCreate
  /\ vd_last' = NoCall
  /\ last_signal' = NoSignal
  /\ last_report' = NoReport
  /\ vd_pc' = "create_poll"

\* VirtualDevice::create, no implementation held: m_impl.reset() does nothing
CreateFresh ==
  /\ vd_pc = "idle"
  /\ ~m_impl
  /\ ConstructAndStart
  /\ UNCHANGED << m_impl, close_ctx, close_i, num_reports >>

\* VirtualDevice::create, an implementation held: m_impl.reset() runs
\* ~VirtualDeviceImpl, that is close() (lines 165, 27-30, 76-79)
CreateReset ==
  /\ vd_pc = "idle"
  /\ m_impl
  /\ close_ctx' = "reset"
  /\ close_i' = 0
  /\ vd_pc' = IF m_client THEN "close_poll" ELSE "close_exit"
  /\ vd_create' = NoCreate
  /\ vd_last' = NoCall
  /\ UNCHANGED << m_impl, m_state, m_client, m_keyboard, m_consumer,
                  m_desktop, m_fn_key_hold, create_i, num_reports,
                  last_report, last_signal >>

\* one evaluation of the loop condition of close() (lines 80-81)
ClosePoll ==
  /\ vd_pc = "close_poll"
  /\ IF CloseLoopCond(m_state, close_i)
     THEN /\ close_i' = close_i + 1
          /\ vd_pc' = "close_poll"
     ELSE /\ close_i' = close_i
          /\ vd_pc' = "close_exit"
  /\ UNCHANGED << m_impl, m_state, m_client, m_keyboard, m_consumer,
                  m_desktop, m_fn_key_hold, close_ctx, create_i, vd_create,
                  vd_last, num_reports, last_report, last_signal >>

\* m_client.reset() and the return of close() (line 83)
CloseExit ==
  /\ vd_pc = "close_exit"
  /\ m_client' = CloseClient(m_client)
  /\ vd_pc' = "close_ret"
  /\ UNCHANGED << m_impl, m_state, m_keyboard, m_consumer, m_desktop,
                  m_fn_key_hold, close_ctx, create_i, close_i, vd_create,
                  vd_last, num_reports, last_report, last_signal >>

\* the destructor has finished: VirtualDevice::create goes on to construct the
\* new implementation (line 166)
CloseReturnReset ==
  /\ vd_pc = "close_ret"
  /\ close_ctx = "reset"
  /\ m_impl' = FALSE
  /\ ConstructAndStart
  /\ close_i' = 0
  /\ UNCHANGED << close_ctx, num_reports >>

\* the destructor of the implementation whose create() failed has finished:
\* VirtualDevice::create returns false (line 168)
CloseReturnFailed ==
  /\ vd_pc = "close_ret"
  /\ close_ctx = "failed"
  /\ m_state' = "initializing"
  /\ m_keyboard' = {}
  /\ m_consumer' = {}
  /\ m_desktop' = {}
  /\ m_fn_key_hold' = FALSE
  /\ close_i' = 0
  /\ last_signal' = NoSignal
  /\ vd_pc' = "idle"
  /\ last_report' = NoReport
  /\ UNCHANGED << m_impl, m_client, close_ctx, create_i, vd_create,
                  vd_last, num_reports >>

\* one evaluation of the loop condition of create() (lines 70-71)
CreatePoll ==
  /\ vd_pc = "create_poll"
  /\ IF CreateLoopCond(m_state, create_i)
     THEN /\ create_i' = create_i + 1
          /\ vd_pc' = "create_poll"
          /\ vd_create' = vd_create
     ELSE /\ create_i' = create_i
          /\ vd_pc' = "create_final"
          /\ vd_create' = [ vd_create EXCEPT !.seen = m_state ]
  /\ UNCHANGED << m_impl, m_state, m_client, m_keyboard, m_consumer,
                  m_desktop, m_fn_key_hold, close_ctx, close_i, vd_last,
                  num_reports, last_report, last_signal >>

\* the final load of create() and the rest of VirtualDevice::create
\* (lines 73, 167-170)
CreateReturn ==
  /\ vd_pc = "create_final"
  /\ LET result == CreateResult(m_state)
     IN /\ vd_create' = [ vd_create EXCEPT !.final = m_state,
                            !.polls = create_i, !.result = result,
                            !.returned = TRUE ]
        /\ IF result
           THEN /\ m_impl' = TRUE
                /\ vd_pc' = "idle"
                /\ UNCHANGED << close_ctx, close_i >>
           ELSE /\ m_impl' = FALSE
                /\ close_ctx' = "failed"
                /\ close_i' = 0
                /\ vd_pc' = IF m_client THEN "close_poll" ELSE "close_exit"
  /\ create_i' = 0
  /\ UNCHANGED << m_state, m_client, m_keyboard, m_consumer, m_desktop,
                  m_fn_key_hold, vd_last, num_reports, last_report,
                  last_signal >>

\* ---------------------------------------------------------------------------
\* VirtualDeviceImpl::send_key_event, send_event, flush and their wrappers
\* ---------------------------------------------------------------------------

\* the FN substitution table (lines 101-116); default falls through to F1
ConsumerUsage(key) ==
  CASE key = Key.F2 -> "DisplayBrightnessIncrement"
    [] key = Key.F3 -> "ACDesktopShowAllWindows"
    [] key = Key.F4 -> "ACSearch"
    [] key = Key.F5 -> "VoiceCommand"
    [] key = Key.F7 -> "ScanPreviousTrack"
    [] key = Key.F8 -> "PlayOrPause"
    [] key = Key.F9 -> "ScanNextTrack"
    [] key = Key.F10 -> "Mute"
    [] key = Key.F11 -> "VolumeDecrement"
    [] key = Key.F12 -> "VolumeIncrement"
    [] OTHER -> "DisplayBrightnessDecrement"

\* keys.insert(key) on Down, keys.erase(key) on Up
HeldUpdate(keys, usage, state) ==
  IF state = "Down" THEN keys \cup { usage } ELSE keys \ { usage }

\* a send_key_event that forgets to look at the state
SendKeyEventGuard_Missing(st) == TRUE

\* the guard of send_key_event (line 87): TRUE when the call goes on
SendKeyEventGuard(st) == st = "connected"

\* a routing that does not look at m_fn_key_hold
Category_IgnoresLayer(fn, key) ==
  IF key = Key.F6 THEN "desktop"
  ELSE IF key >= Key.F1 /\ key <= Key.F12 THEN "consumer"
  ELSE "keyboard"

\* the category an event is routed to (lines 91, 100, 124)
Category(fn, key) ==
  IF ~fn /\ key = Key.F6 THEN "desktop"
  ELSE IF ~fn /\ key >= Key.F1 /\ key <= Key.F12 THEN "consumer"
  ELSE "keyboard"

\* VirtualDeviceImpl::send_key_event as a function of the fields it reads:
\* the return value, the three key sets and the report posted (lines 86-134)
Impl_send_key_event(st, fn, kb, cs, dk, event) ==
  IF ~SendKeyEventGuard(st)
  THEN [ ret |-> FALSE, kb |-> kb, cs |-> cs, dk |-> dk, posted |-> FALSE,
         report |-> NoReport ]
  ELSE LET cat == Category(fn, event.key)
       IN CASE cat = "desktop" ->
                 LET keys == HeldUpdate(dk, "DoNotDisturb", event.state)
                 IN [ ret |-> TRUE, kb |-> kb, cs |-> cs, dk |-> keys,
                      posted |-> TRUE,
                      report |-> [ category |-> cat, keys |-> keys ] ]
            [] cat = "consumer" ->
                 LET keys == HeldUpdate(cs, ConsumerUsage(event.key), event.state)
                 IN [ ret |-> TRUE, kb |-> kb, cs |-> keys, dk |-> dk,
                      posted |-> TRUE,
                      report |-> [ category |-> cat, keys |-> keys ] ]
            [] OTHER ->
                 LET keys == HeldUpdate(kb, event.key, event.state)
                 IN [ ret |-> TRUE, kb |-> keys, cs |-> cs, dk |-> dk,
                      posted |-> TRUE,
                      report |-> [ category |-> "keyboard", keys |-> keys ] ]

\* VirtualDevice::send_key_event (lines 173-175)
SendKeyEvent(event) ==
  /\ vd_pc = "idle"
  /\ num_reports < MaxReports
  /\ LET r == IF m_impl
              THEN Impl_send_key_event(m_state, m_fn_key_hold, m_keyboard,
                                       m_consumer, m_desktop, event)
              ELSE [ ret |-> FALSE, kb |-> m_keyboard, cs |-> m_consumer,
                     dk |-> m_desktop, posted |-> FALSE, report |-> NoReport ]
     IN /\ m_keyboard' = r.kb
        /\ m_consumer' = r.cs
        /\ m_desktop' = r.dk
        /\ num_reports' = IF r.posted THEN num_reports + 1 ELSE num_reports
        /\ last_report' = IF r.posted THEN r.report ELSE last_report
        /\ vd_last' = [ op |-> "send_key_event", state |-> m_state,
                        impl |-> m_impl, ret |-> r.ret, posted |-> r.posted ]
  /\ vd_create' = NoCreate
  /\ UNCHANGED << m_impl, m_state, m_client, m_fn_key_hold, vd_pc, close_ctx,
                  create_i, close_i, last_signal >>

\* a send_event without its range check
SendEventRejects_Never(page, usage) == FALSE

\* the range check of send_event (lines 141-144): TRUE when rejected
SendEventRejects(page, usage) ==
  /\ page = kHIDPage_KeyboardOrKeypad
  /\ (usage < kHIDUsage_KeyboardA \/ usage > kHIDUsage_KeyboardRightGUI)

\* VirtualDeviceImpl::send_event: return value and m_fn_key_hold (lines 140-154)
Impl_send_event(fn, page, usage, value) ==
  IF SendEventRejects(page, usage)
  THEN [ ret |-> FALSE, fn |-> fn ]
  ELSE [ ret |-> TRUE, fn |-> IF page = FnPage THEN value # 0 ELSE fn ]

Pages == { kHIDPage_KeyboardOrKeypad, FnPage, 12 }
Usages == { kHIDUsage_KeyboardA - 1, kHIDUsage_KeyboardA,
            kHIDUsage_KeyboardRightGUI, kHIDUsage_KeyboardRightGUI + 1 }
Values == { 0, 1 }

\* VirtualDevice::send_event (lines 177-179)
SendEvent(page, usage, value) ==
  /\ vd_pc = "idle"
  /\ LET r == IF m_impl
              THEN Impl_send_event(m_fn_key_hold, page, usage, value)
              ELSE [ ret |-> FALSE, fn |-> m_fn_key_hold ]
     IN /\ m_fn_key_hold' = r.fn
        /\ vd_last' = [ op |-> "send_event", state |-> m_state,
                        impl |-> m_impl, ret |-> r.ret, posted |-> FALSE ]
  /\ vd_create' = NoCreate
  /\ UNCHANGED << m_impl, m_state, m_client, m_keyboard, m_consumer,
                  m_desktop, vd_pc, close_ctx, create_i, close_i,
                  num_reports, last_report, last_signal >>



\* ---------------------------------------------------------------------------
\* Interception: native strokes and their conversion (lines 18-75)
\* ---------------------------------------------------------------------------
RECURSIVE BitAnd(_, _)
BitAnd(x, y) ==
  IF x = 0 \/ y = 0 THEN 0
  ELSE (x % 2) * (y % 2) + 2 * BitAnd(x \div 2, y \div 2)

RECURSIVE BitOr(_, _)
BitOr(x, y) ==
  IF x = 0 THEN y
  ELSE IF y = 0 THEN x
  ELSE (IF x % 2 = 1 \/ y % 2 = 1 THEN 1 ELSE 0)
       + 2 * BitOr(x \div 2, y \div 2)

Abs(x) == IF x < 0 THEN -x ELSE x

KeyEvent(key, state, value) == [ key |-> key, state |-> state, value |-> value ]

\* get_key_event(const InterceptionKeyStroke&) (lines 18-24)
get_key_event_key(stroke) ==
  LET key == BitOr(stroke.code,
                   IF BitAnd(stroke.state, INTERCEPTION_KEY_E0) # 0
                   THEN ExtendedBits ELSE 0)
      state == IF BitAnd(stroke.state, INTERCEPTION_KEY_UP) # 0
               THEN "Up" ELSE "Down"
  IN KeyEvent(key, state, 0)

\* the pair of button bits tested for button n, n in 1..5 (lines 27-61)
ButtonDown(n) == 2 ^ (2 * (n - 1))
ButtonUp(n) == 2 ^ (2 * (n - 1) + 1)

ButtonKey(n) ==
  CASE n = 1 -> Key.ButtonLeft
    [] n = 2 -> Key.ButtonRight
    [] n = 3 -> Key.ButtonMiddle
    [] n = 4 -> Key.ButtonBack
    [] OTHER -> Key.ButtonForward

RECURSIVE MouseButtonFrom(_, _)
MouseButtonFrom(n, stroke) ==
  IF n > 5 THEN
    IF BitAnd(stroke.state, INTERCEPTION_MOUSE_WHEEL) # 0
    THEN KeyEvent(IF stroke.rolling < 0 THEN Key.WheelDown ELSE Key.WheelUp,
                  "Up", Abs(stroke.rolling))
    ELSE IF BitAnd(stroke.state, INTERCEPTION_MOUSE_HWHEEL) # 0
    THEN KeyEvent(IF stroke.rolling < 0 THEN Key.WheelLeft ELSE Key.WheelRight,
                  "Up", Abs(stroke.rolling))
    ELSE KeyEvent(Key.none, "Up", 0)
  ELSE IF BitAnd(stroke.state, ButtonDown(n)) # 0
          \/ BitAnd(stroke.state, ButtonUp(n)) # 0
  THEN KeyEvent(ButtonKey(n),
                IF BitAnd(stroke.state, ButtonUp(n)) # 0 THEN "Up" ELSE "Down",
                0)
  ELSE MouseButtonFrom(n + 1, stroke)

\* get_key_event(const InterceptionMouseStroke&) (lines 26-75)
get_key_event_mouse(stroke) == MouseButtonFrom(1, stroke)

\* get_interception_key_stroke (lines 77-86): the key as an unsigned short, any
\* of the three top bits cleared and replaced by the E0 flag
get_interception_key_stroke(event) ==
  LET scan_code == event.key % 65536
      state == IF event.state = "Up" THEN INTERCEPTION_KEY_UP ELSE 0
  IN IF BitAnd(scan_code, ExtendedBits) # 0
     THEN [ code |-> scan_code - BitAnd(scan_code, ExtendedBits),
            state |-> BitOr(state, INTERCEPTION_KEY_E0) ]
     ELSE [ code |-> scan_code, state |-> state ]

\* the button number of a key in the switch of lines 91-106, 0 for other keys
ButtonOf(key) ==
  IF \E n \in 1..5 : ButtonKey(n) = key
  THEN CHOOSE n \in 1..5 : ButtonKey(n) = key
  ELSE 0

\* get_interception_mouse_stroke (lines 88-123)
get_interception_mouse_stroke(event) ==
  LET down == event.state = "Down"
      vertical == event.key \in { Key.WheelUp, Key.WheelDown }
      negative == event.key \in { Key.WheelDown, Key.WheelLeft }
      value == (IF event.value # 0 THEN event.value ELSE WHEEL_DELTA)
               * (IF negative THEN -1 ELSE 1)
  IN IF ButtonOf(event.key) # 0
     THEN [ state |-> IF down THEN ButtonDown(ButtonOf(event.key))
                      ELSE ButtonUp(ButtonOf(event.key)),
            rolling |-> 0 ]
     ELSE IF event.key \in { Key.WheelDown, Key.WheelUp,
                             Key.WheelLeft, Key.WheelRight }
     THEN [ state |-> IF vertical THEN INTERCEPTION_MOUSE_WHEEL
                      ELSE INTERCEPTION_MOUSE_HWHEEL,
            rolling |-> value ]
     ELSE [ state |-> 0, rolling |-> 0 ]

\* ---------------------------------------------------------------------------
\* Interception: hardware-id lists and their matching (lines 125-149)
\* A list is a sequence of characters; NUL separates the entries.  The
\* character "V1" stands for the text HID\VID_1&PID_1&REV_1, "V1b" for a
\* different spelling of the same three numbers, "V2" for another triple.
\* ---------------------------------------------------------------------------
NUL == "\\0"
Backslash == "\\"
npos == -1

Triple(ch) ==
  CASE ch = "V1" -> 1
    [] ch = "V1b" -> 1
    [] ch = "V2" -> 2
    [] OTHER -> 0

ContainsBackslash(ch) == ch = Backslash \/ Triple(ch) # 0

RECURSIVE Find(_, _, _)
\* std::wstring::find(ch, pos), positions counted from 0
Find(list, ch, pos) ==
  IF pos >= Len(list) THEN npos
  ELSE IF list[pos + 1] = ch THEN pos
  ELSE Find(list, ch, pos + 1)

\* std::wstring_view(&list[pos]): the characters up to the next NUL; the
\* buffer of a wstring ends with a NUL of its own
EntryAt(list, pos) ==
  LET nul == Find(list, NUL, pos)
  IN SubSeq(list, pos + 1, IF nul = npos THEN Len(list) ELSE nul)

\* get_vid_pid_rev (lines 125-130): the triple, or 0 for nullopt
get_vid_pid_rev(entry) ==
  IF entry # << >> THEN Triple(entry[1]) ELSE 0

\* the index after one loop step: find(L'\0', pos) + 1, where npos + 1 is 0
NextEntry(list, pos) ==
  LET nul == Find(list, NUL, pos)
  IN IF nul = npos THEN 0 ELSE nul + 1

RECURSIVE MatchInner(_, _, _)
\* the loop over list_b (lines 138-146) for one entry of list_a
MatchInner(entry_a, list_b, b) ==
  IF ~(b < Len(list_b)) THEN "nomatch"
  ELSE LET entry_b == EntryAt(list_b, b)
           vid_pid_rev_a == get_vid_pid_rev(entry_a)
       IN IF entry_a = entry_b THEN "match"
          ELSE IF vid_pid_rev_a # 0 /\ vid_pid_rev_a = get_vid_pid_rev(entry_b)
          THEN "match"
          ELSE IF NextEntry(list_b, b) = 0 THEN "diverges"
          ELSE MatchInner(entry_a, list_b, NextEntry(list_b, b))

\* a variant that looks at the first entry of list_a only
MatchOuter_FirstEntryOnly(list_a, list_b, a) ==
  IF ~(a < Len(list_a)) THEN "nomatch"
  ELSE LET entry_a == EntryAt(list_a, a)
       IN IF \E i \in 1..Len(entry_a) : ContainsBackslash(entry_a[i])
          THEN MatchInner(entry_a, list_b, 0)
          ELSE "nomatch"

RECURSIVE MatchOuter(_, _, _)
\* the loop over list_a (lines 133-147)
MatchOuter(list_a, list_b, a) ==
  IF ~(a < Len(list_a)) THEN "nomatch"
  ELSE LET entry_a == EntryAt(list_a, a)
           inner == IF \E i \in 1..Len(entry_a) : ContainsBackslash(entry_a[i])
                    THEN MatchInner(entry_a, list_b, 0)
                    ELSE "nomatch"
       IN IF inner # "nomatch" THEN inner
          ELSE IF NextEntry(list_a, a) = 0 THEN "diverges"
          ELSE MatchOuter(list_a, list_b, NextEntry(list_a, a))

\* match_hardware_ids (lines 132-149): "match" for true, "nomatch" for false,
\* "diverges" when an index wraps to 0 and the loop never ends
match_hardware_ids(list_a, list_b) == MatchOuter(list_a, list_b, 0)

\* ---------------------------------------------------------------------------
\* Devices: the roster and the grab filters
\* ---------------------------------------------------------------------------
Handles == 1..NumHandles
NullHandle == 0

Names == { "n1", "n2" }
InstanceIds == { "i1", "i2" }
Descs == [ name : Names, id : InstanceIds ]
NoDesc == [ name |-> "", id |-> "" ]

\* GrabDeviceFilter: a rule matched against the name or the instance id
Filter(by_id, pattern, allow) ==
  [ by_id |-> by_id, pattern |-> pattern, allow |-> allow ]

FilterLists ==
  { << >>,
    << Filter(FALSE, "n1", FALSE) >>,
    << Filter(TRUE, "i2", FALSE) >>,
    << Filter(FALSE, "n1", FALSE), Filter(TRUE, "i1", TRUE) >> }

RECURSIVE EvaluateFrom(_, _, _, _, _)
EvaluateFrom(i, filters, name, id, grab) ==
  IF i > Len(filters) THEN grab
  ELSE LET f == filters[i]
           subject == IF f.by_id THEN id ELSE name
       IN EvaluateFrom(i + 1, filters, name, id,
                       IF subject = f.pattern THEN f.allow ELSE grab)

\* evaluate_grab_filters(filters, name, id, initial): the rules in order, the
\* last matching rule decides, no matching rule leaves the initial value
evaluate_grab_filters(filters, name, id, initial) ==
  EvaluateFrom(1, filters, name, id, initial)

\* the four vectors of the roster as one value
Roster(handles, descs, ign_handles, ign_descs) ==
  [ handles |-> handles, descs |-> descs,
    ign_handles |-> ign_handles, ign_descs |-> ign_descs ]

CurrentRoster ==
  Roster(m_device_handles, m_device_descs, m_ignored_device_handles,
         m_ignored_device_descs)

\* vector::erase(begin() + index), index counted from 1
Erase(seq, index) ==
  SubSeq(seq, 1, index - 1) \o SubSeq(seq, index + 1, Len(seq))

\* a reset that forgets to clear the ignored vectors
ResetDeviceFilters_NoClear(r) ==
  Roster(r.handles \o r.ign_handles, r.descs \o r.ign_descs,
         r.ign_handles, r.ign_descs)

\* Devices::reset_device_filters (lines 454-463)
ResetDeviceFilters(r) ==
  Roster(r.handles \o r.ign_handles, r.descs \o r.ign_descs, << >>, << >>)

RECURSIVE ApplyFrom(_, _, _)
ApplyFrom(i, r, filters) ==
  IF ~(i < Len(r.descs)) THEN r
  ELSE LET handle == r.handles[i + 1]
           desc == r.descs[i + 1]
           grab == evaluate_grab_filters(filters, desc.name, desc.id, TRUE)
       IN IF ~grab
          THEN ApplyFrom(i,
                 Roster(Erase(r.handles, i + 1), Erase(r.descs, i + 1),
                        Append(r.ign_handles, handle),
                        Append(r.ign_descs, desc)),
                 filters)
          ELSE ApplyFrom(i + 1, r, filters)

RECURSIVE ApplyFrom_SkipAfterErase(_, _, _)
ApplyFrom_SkipAfterErase(i, r, filters) ==
  IF ~(i < Len(r.descs)) THEN r
  ELSE LET handle == r.handles[i + 1]
           desc == r.descs[i + 1]
           grab == evaluate_grab_filters(filters, desc.name, desc.id, TRUE)
       IN IF ~grab
          THEN ApplyFrom_SkipAfterErase(i + 1,
                 Roster(Erase(r.handles, i + 1), Erase(r.descs, i + 1),
                        Append(r.ign_handles, handle),
                        Append(r.ign_descs, desc)),
                 filters)
          ELSE ApplyFrom_SkipAfterErase(i + 1, r, filters)

\* a partitioning loop that advances the index after an erase as well
ApplyDeviceFilters_SkipAfterErase(r, filters) ==
  ApplyFrom_SkipAfterErase(0, r, filters)

\* Devices::apply_device_filters (lines 465-481)
ApplyDeviceFilters(r, filters) == ApplyFrom(0, r, filters)

RECURSIVE FindFrom(_, _, _)
FindFrom(i, seq, x) ==
  IF i > Len(seq) THEN -1
  ELSE IF seq[i] = x THEN i - 1
  ELSE FindFrom(i + 1, seq, x)

\* Devices::get_device_index (lines 431-438): index from 0, or -1
get_device_index(handles, device) ==
  IF device = NullHandle THEN -1 ELSE FindFrom(1, handles, device)

\* the roster part of on_device_attached (lines 405-412)
AttachRoster(r, filters, device, desc) ==
  LET reset == ResetDeviceFilters(r)
  IN ApplyDeviceFilters(
       Roster(Append(reset.handles, device), Append(reset.descs, desc),
              reset.ign_handles, reset.ign_descs),
       filters)

\* a removal that looks for the device without resetting the partition first
RemoveRoster_NoReset(r, filters, device) ==
  LET index == get_device_index(r.handles, device)
      erased == IF index >= 0
                THEN Roster(Erase(r.handles, index + 1),
                            Erase(r.descs, index + 1),
                            r.ign_handles, r.ign_descs)
                ELSE r
  IN ApplyDeviceFilters(ResetDeviceFilters(erased), filters)

\* Devices::on_device_removed on the roster (lines 421-429)
RemoveRoster(r, filters, device) ==
  LET reset == ResetDeviceFilters(r)
      index == get_device_index(reset.handles, device)
      erased == IF index >= 0
                THEN Roster(Erase(reset.handles, index + 1),
                            Erase(reset.descs, index + 1),
                            reset.ign_handles, reset.ign_descs)
                ELSE reset
  IN ApplyDeviceFilters(erased, filters)

\* Devices::set_grab_filters on the roster (lines 448-452)
SetFiltersRoster(r, filters) ==
  ApplyDeviceFilters(ResetDeviceFilters(r), filters)

Range(seq) == { seq[i] : i \in 1..Len(seq) }

StoreRoster(r) ==
  /\ m_device_handles' = r.handles
  /\ m_device_descs' = r.descs
  /\ m_ignored_device_handles' = r.ign_handles
  /\ m_ignored_device_descs' = r.ign_descs

Before(op, device) ==
  [ op |-> op, device |-> device,
    captured |-> Range(m_device_handles),
    ignored |-> Range(m_ignored_device_handles) ]

\* ---------------------------------------------------------------------------
\* Interception: the identity maps (lines 216-277)
\* ---------------------------------------------------------------------------
Slots == 1..INTERCEPTION_MAX_DEVICE
NoSlot == 0
Hang == -1

\* interception_is_keyboard
is_keyboard(device) == device >= 1 /\ device <= INTERCEPTION_MAX_KEYBOARD

\* the hardware ids the OS reports for a handle (DEVPKEY_Device_HardwareIds
\* without its last terminator, lines 373-393)
HandleIds(handle) ==
  CASE handle = 1 -> << "V1", "x", NUL, "V1", NUL >>
    [] handle = 2 -> << "V2", NUL >>
    [] OTHER -> << "y", NUL >>

\* the devices behind the driver's slots: two keyboards with the same
\* vendor, product and revision, and the mouse of a composite device
PopulatedSlots == { 1, 2, 11 }

\* Interception::get_hardware_ids (lines 253-260): what the driver reports
get_hardware_ids(device) ==
  CASE device = 1 -> << "V1", "x", NUL, NUL >>
    [] device = 2 -> << "V1b", "y", NUL, NUL >>
    [] device = 11 -> << "V2", NUL, NUL >>
    [] OTHER -> << >>

RECURSIVE ByHardwareIdFrom(_, _, _)
ByHardwareIdFrom(i, regs, ids) ==
  IF i > Len(regs) THEN NullHandle
  ELSE LET m == match_hardware_ids(regs[i][2], ids)
       IN IF m = "match" THEN regs[i][1]
          ELSE IF m = "diverges" THEN Hang
          ELSE ByHardwareIdFrom(i + 1, regs, ids)

\* Interception::get_device_handle_by_hardware_id (lines 262-267)
get_device_handle_by_hardware_id(regs, ids) == ByHardwareIdFrom(1, regs, ids)

Maps(by_device, by_handle) == [ by_device |-> by_device, by_handle |-> by_handle ]

CurrentMaps == Maps(m_handle_by_device, m_device_by_handle)

\* a lookup that forgets what it has resolved
Cache_Nothing(maps, device, handle) == maps

\* lines 273-274
Cache(maps, device, handle) ==
  Maps([ maps.by_device EXCEPT ![device] = handle ],
       [ maps.by_handle EXCEPT ![handle] = device ])

\* Interception::get_device_handle (lines 269-277): the handle (Hang when the
\* matching never returns) and the maps afterwards
get_device_handle(regs, maps, device) ==
  LET handle == maps.by_device[device]
  IN IF handle # NullHandle THEN [ handle |-> handle, maps |-> maps ]
     ELSE LET found == get_device_handle_by_hardware_id(
                         regs, get_hardware_ids(device))
          IN IF found # NullHandle /\ found # Hang
             THEN [ handle |-> found, maps |-> Cache(maps, device, found) ]
             ELSE [ handle |-> found, maps |-> maps ]

RECURSIVE TrySetLastFrom(_, _, _, _, _)
\* the loops of try_set_last_keyboard and try_set_last_mouse (lines 220-236):
\* from slot down to lowest + 1
TrySetLastFrom(slot, lowest, regs, maps, last) ==
  IF ~(slot > lowest) THEN [ maps |-> maps, last |-> last, hang |-> FALSE ]
  ELSE LET r == get_device_handle(regs, maps, slot)
       IN IF r.handle = Hang
          THEN [ maps |-> maps, last |-> last, hang |-> TRUE ]
          ELSE IF r.handle = NullHandle
          THEN TrySetLastFrom(slot - 1, lowest, regs, r.maps, last)
          ELSE [ maps |-> r.maps, last |-> slot, hang |-> FALSE ]

\* Interception::try_set_last_keyboard (lines 220-227)
try_set_last_keyboard(regs, maps, last) ==
  TrySetLastFrom(INTERCEPTION_MAX_KEYBOARD, 0, regs, maps, last)

\* Interception::try_set_last_mouse (lines 229-236)
try_set_last_mouse(regs, maps, last) ==
  TrySetLastFrom(INTERCEPTION_MAX_DEVICE, INTERCEPTION_MAX_KEYBOARD, regs,
                 maps, last)

\* ---------------------------------------------------------------------------
\* Devices: initialize, shutdown and the device notifications
\* ---------------------------------------------------------------------------
NoStroke == [ code |-> 0, state |-> 0 ]
NoMsg == [ key |-> 0, state |-> "Up", value |-> 0, handle |-> NullHandle ]
NoReply == -1
Pending == -2

EmptyByDevice == [ d \in Slots |-> NullHandle ]
EmptyByHandle == [ h \in Handles |-> NoSlot ]

\* the outcome of a call of Devices::initialize: ret is "true" or "false"
\* ("none" before any call), attempted tells whether the call went past the
\* early return of lines 319-320
DevRet(ret, attempted) == [ ret |-> ret, attempted |-> attempted ]

\* a new Interception object (member initializers, lines 167-174)
FreshInterception ==
  /\ m_shutdown' = FALSE
  /\ m_handle_with_hardware_ids' = << >>
  /\ m_handle_by_device' = EmptyByDevice
  /\ m_device_by_handle' = EmptyByHandle
  /\ m_last_keyboard' = NoSlot
  /\ m_last_mouse' = NoSlot

\* Devices::initialize when m_window is set already (lines 319-320)
InitializeAgain ==
  /\ host_pc = "idle"
  /\ m_window
  /\ dev_ret' = DevRet(IF m_interception THEN "true" ELSE "false", FALSE)
  /\ UNCHANGED << rosterVars, m_window, m_interception, registered,
                  m_shutdown, m_handle_with_hardware_ids, m_handle_by_device,
                  m_device_by_handle, m_last_keyboard, m_last_mouse, host_pc,
                  host_arg, join_ctx, th_pc, th_device, th_stroke, msg,
                  msg_reply, received, injected, delivered >>

\* Devices::initialize, Interception::initialize fails: no driver module or no
\* context (lines 321-328, 192-201)
InitializeNoDriver ==
  /\ host_pc = "idle"
  /\ ~m_window
  /\ m_window' = TRUE
  /\ dev_ret' = DevRet("false", TRUE)
  /\ UNCHANGED << rosterVars, m_interception, registered, m_shutdown,
                  m_handle_with_hardware_ids, m_handle_by_device,
                  m_device_by_handle, m_last_keyboard, m_last_mouse, host_pc,
                  host_arg, join_ctx, th_pc, th_device, th_stroke, msg,
                  msg_reply, received, injected, delivered >>

\* Devices::initialize, Interception::initialize succeeds and starts the
\* capture thread (lines 321-325, 197-213)
InitializeStart ==
  /\ host_pc = "idle"
  /\ ~m_window
  /\ m_window' = TRUE
  /\ FreshInterception
  /\ th_pc' = "loop"
  /\ host_pc' = "register"
  /\ received' = << >>
  /\ injected' = << >>
  /\ delivered' = << >>
  /\ UNCHANGED << rosterVars, m_interception, registered, host_arg, join_ctx,
                  th_device, th_stroke, msg, msg_reply, dev_ret >>

\* Devices::initialize, RegisterRawInputDevices (lines 330-340); on failure the
\* local Interception is destroyed, which joins the thread (lines 181-184)
InitializeRegister(ok) ==
  /\ host_pc = "register"
  /\ IF ok
     THEN /\ registered' = TRUE
          /\ m_interception' = TRUE
          /\ dev_ret' = DevRet("true", TRUE)
          /\ host_pc' = "idle"
          /\ UNCHANGED << m_shutdown, join_ctx >>
     ELSE /\ m_shutdown' = TRUE
          /\ host_pc' = "join"
          /\ join_ctx' = "initialize"
          /\ UNCHANGED << registered, m_interception, dev_ret >>
  /\ UNCHANGED << rosterVars, m_window, m_handle_with_hardware_ids,
                  m_handle_by_device, m_device_by_handle, m_last_keyboard,
                  m_last_mouse, host_arg, th_pc, th_device, th_stroke, msg,
                  msg_reply, received, injected, delivered >>

\* Devices::shutdown (lines 347-350): m_interception.reset() runs
\* ~Interception, which sets m_shutdown and joins (lines 181-184)
Shutdown ==
  /\ host_pc = "idle"
  /\ IF m_interception
     THEN /\ m_shutdown' = TRUE
          /\ host_pc' = "join"
          /\ join_ctx' = "shutdown"
          /\ UNCHANGED m_window
     ELSE /\ m_window' = FALSE
          /\ UNCHANGED << m_shutdown, host_pc, join_ctx >>
  /\ UNCHANGED << rosterVars, m_interception, registered,
                  m_handle_with_hardware_ids, m_handle_by_device,
                  m_device_by_handle, m_last_keyboard, m_last_mouse, host_arg,
                  th_pc, th_device, th_stroke, msg, msg_reply, received,
                  injected, delivered, dev_ret >>

\* m_thread.join() returns, the rest of ~Interception and of its caller
\* (lines 185-188, 327 or 349)
JoinDone ==
  /\ host_pc = "join"
  /\ th_pc = "exited"
  /\ FreshInterception
  /\ th_pc' = "none"
  /\ th_device' = NoSlot
  /\ th_stroke' = NoStroke
  /\ m_interception' = FALSE
  /\ IF join_ctx = "shutdown"
     THEN m_window' = FALSE /\ UNCHANGED dev_ret
     ELSE dev_ret' = DevRet("false", TRUE) /\ UNCHANGED m_window
  /\ host_pc' = "idle"
  /\ UNCHANGED << rosterVars, registered, host_arg, join_ctx, msg, msg_reply,
                  received, injected, delivered >>

\* Devices::on_device_attached (lines 353-412) for a handle the OS announces;
\* ok is FALSE when one of the device queries fails (lines 358, 366, 388)
OnDeviceAttached(device, ok, desc) ==
  /\ host_pc = "idle"
  /\ registered
  /\ device \notin os_present
  /\ ok /\ m_interception => Len(m_handle_with_hardware_ids) < MaxRegistered
  /\ os_present' = os_present \cup { device }
  /\ IF ok
     THEN /\ StoreRoster(AttachRoster(CurrentRoster, m_grab_filters, device, desc))
          /\ attached' = [ attached EXCEPT ![device] = desc ]
          /\ roster_last' = Before("on_device_attached", device)
          /\ host_pc' = IF m_interception THEN "attach_ic" ELSE "idle"
          /\ host_arg' = IF m_interception THEN device ELSE host_arg
     ELSE UNCHANGED << m_device_handles, m_device_descs,
                       m_ignored_device_handles, m_ignored_device_descs,
                       attached, roster_last, host_pc, host_arg >>
  /\ UNCHANGED << m_grab_filters, m_window, m_interception, registered,
                  m_shutdown, m_handle_with_hardware_ids, m_handle_by_device,
                  m_device_by_handle, m_last_keyboard, m_last_mouse, join_ctx,
                  th_pc, th_device, th_stroke, msg, msg_reply, received,
                  injected, delivered, dev_ret >>

\* the rest of Devices::on_device_attached (lines 414-418):
\* set_device_hardware_ids, try_set_last_keyboard, try_set_last_mouse
AttachInterception ==
  /\ host_pc = "attach_ic"
  /\ LET regs == Append(m_handle_with_hardware_ids,
                        << host_arg, HandleIds(host_arg) >>)
         kb == try_set_last_keyboard(regs, CurrentMaps, m_last_keyboard)
         ms == try_set_last_mouse(regs, kb.maps, m_last_mouse)
     IN /\ m_handle_with_hardware_ids' = regs
        /\ m_handle_by_device' = ms.maps.by_device
        /\ m_device_by_handle' = ms.maps.by_handle
        /\ m_last_keyboard' = kb.last
        /\ m_last_mouse' = ms.last
        /\ host_pc' = IF kb.hang \/ ms.hang THEN "hung" ELSE "idle"
  /\ host_arg' = NullHandle
  /\ UNCHANGED << rosterVars, m_window, m_interception, registered,
                  m_shutdown, join_ctx, th_pc, th_device, th_stroke, msg,
                  msg_reply, received, injected, delivered, dev_ret >>

\* Devices::on_device_removed (lines 421-429)
OnDeviceRemoved(device) ==
  /\ host_pc = "idle"
  /\ registered
  /\ os_present' = os_present \ { device }
  /\ StoreRoster(RemoveRoster(CurrentRoster, m_grab_filters, device))
  /\ attached' = [ h \in Handles |-> IF h = device THEN NoDesc ELSE attached[h] ]
  /\ roster_last' = Before("on_device_removed", device)
  /\ UNCHANGED << m_grab_filters, icVars >>

\* Devices::set_grab_filters (lines 448-452)
SetGrabFilters(filters) ==
  /\ host_pc = "idle"
  /\ m_grab_filters' = filters
  /\ StoreRoster(SetFiltersRoster(CurrentRoster, filters))
  /\ roster_last' = Before("set_grab_filters", NullHandle)
  /\ UNCHANGED << os_present, attached, icVars >>

InitRoster ==
  /\ m_device_handles = << >>
  /\ m_device_descs = << >>
  /\ m_ignored_device_handles = << >>
  /\ m_ignored_device_descs = << >>
  /\ m_grab_filters = << >>
  /\ os_present = {}
  /\ attached = [ h \in Handles |-> NoDesc ]
  /\ roster_last = [ op |-> "none", device |-> NullHandle, captured |-> {},
                     ignored |-> {} ]

\* ---------------------------------------------------------------------------
\* Interception::thread_func (lines 279-310) and the host's window procedure
\* ---------------------------------------------------------------------------
KeyStrokes == { [ code |-> 30, state |-> 0 ], [ code |-> 72, state |-> 3 ] }
MouseStrokes == { [ state |-> 1, rolling |-> 0 ],
                  [ state |-> 1024, rolling |-> -120 ] }
StrokesOf(device) == IF is_keyboard(device) THEN KeyStrokes ELSE MouseStrokes

\* the event of the received stroke (lines 287-295)
StrokeEvent(device, stroke) ==
  IF is_keyboard(device) THEN get_key_event_key(stroke)
  ELSE get_key_event_mouse(stroke)

\* the condition of line 296 with a handle that is never tested
Resolved_Always(handle) == TRUE

\* the condition of line 296
Resolved(handle) == handle # NullHandle

\* a loop that falls through to interception_send after a consumed stroke
Consumed_Never(reply) == FALSE

\* the condition of lines 302-305: the stroke is dropped
Consumed(reply) == reply = 1

\* the arguments of interception_send (line 307)
Reinjected(device, stroke) == [ device |-> device, stroke |-> stroke ]

\* while (!m_shutdown.load()) (line 281)
ThreadLoop ==
  /\ th_pc = "loop"
  /\ th_pc' = IF m_shutdown THEN "exited" ELSE "wait"
  /\ UNCHANGED << rosterVars, m_window, m_interception, registered,
                  m_shutdown, m_handle_with_hardware_ids, m_handle_by_device,
                  m_device_by_handle, m_last_keyboard, m_last_mouse, host_pc,
                  host_arg, join_ctx, th_device, th_stroke, msg, msg_reply,
                  received, injected, delivered, dev_ret >>

\* interception_wait_with_timeout times out: device 0, nothing received
\* (lines 283-284)
ThreadTimeout ==
  /\ th_pc = "wait"
  /\ th_pc' = "loop"
  /\ th_device' = NoSlot
  /\ UNCHANGED << rosterVars, m_window, m_interception, registered,
                  m_shutdown, m_handle_with_hardware_ids, m_handle_by_device,
                  m_device_by_handle, m_last_keyboard, m_last_mouse, host_pc,
                  host_arg, join_ctx, th_stroke, msg, msg_reply, received,
                  injected, delivered, dev_ret >>

\* a stroke of a device arrives (lines 283-284)
ThreadReceive(device, stroke) ==
  /\ th_pc = "wait"
  /\ Len(received) < MaxStrokes
  /\ th_pc' = "lookup"
  /\ th_device' = device
  /\ th_stroke' = stroke
  /\ received' = Append(received, [ device |-> device, stroke |-> stroke,
                                    handle |-> Pending, reply |-> NoReply,
                                    done |-> FALSE ])
  /\ UNCHANGED << rosterVars, m_window, m_interception, registered,
                  m_shutdown, m_handle_with_hardware_ids, m_handle_by_device,
                  m_device_by_handle, m_last_keyboard, m_last_mouse, host_pc,
                  host_arg, join_ctx, msg, msg_reply, injected, delivered,
                  dev_ret >>

\* what get_device_handle can return to the capture thread: its result, or,
\* while the host thread is writing the same containers (lines 415-417),
\* anything
LookupOutcomes ==
  IF host_pc = "attach_ic"
  THEN { [ handle |-> h,
           maps |-> IF h = NullHandle THEN CurrentMaps
                    ELSE Cache(CurrentMaps, th_device, h) ] :
         h \in Handles \cup { NullHandle } }
  ELSE { get_device_handle(m_handle_with_hardware_ids, CurrentMaps, th_device) }

\* get_device_handle and what follows it up to SendMessageA or, for an
\* unresolved device, interception_send (lines 296-307)
ThreadLookup ==
  /\ th_pc = "lookup"
  /\ \E r \in LookupOutcomes :
       LET n == Len(received)
           event == StrokeEvent(th_device, th_stroke)
       IN /\ m_handle_by_device' = r.maps.by_device
          /\ m_device_by_handle' = r.maps.by_handle
          /\ IF r.handle = Hang
             THEN /\ th_pc' = "hung"
                  /\ UNCHANGED << m_last_keyboard, m_last_mouse, msg,
                                  msg_reply, received, injected, delivered >>
             ELSE IF Resolved(r.handle)
             THEN /\ m_last_keyboard' = IF is_keyboard(th_device)
                                        THEN th_device ELSE m_last_keyboard
                  /\ m_last_mouse' = IF is_keyboard(th_device)
                                     THEN m_last_mouse ELSE th_device
                  /\ msg' = [ key |-> event.key, state |-> event.state,
                              value |-> event.value % 2048,
                              handle |-> r.handle ]
                  /\ msg_reply' = NoReply
                  /\ delivered' = Append(delivered, [ n |-> n, msg |-> msg' ])
                  /\ received' = [ received EXCEPT ![n].handle = r.handle ]
                  /\ th_pc' = "blocked"
                  /\ UNCHANGED injected
             ELSE /\ injected' = Append(injected,
                                   [ n |-> n,
                                     sent |-> Reinjected(th_device, th_stroke) ])
                  /\ received' = [ received EXCEPT ![n].handle = r.handle,
                                                   ![n].done = TRUE ]
                  /\ th_pc' = "loop"
                  /\ UNCHANGED << m_last_keyboard, m_last_mouse, msg,
                                  msg_reply, delivered >>
  /\ UNCHANGED << rosterVars, m_window, m_interception, registered,
                  m_shutdown, m_handle_with_hardware_ids, host_pc, host_arg,
                  join_ctx, th_device, th_stroke, dev_ret >>

\* the host thread runs the window procedure for the message: handle_input
\* answers consumed or not
HandleInput(consumed) ==
  /\ host_pc = "idle"
  /\ msg # NoMsg
  /\ msg_reply = NoReply
  /\ msg_reply' = IF consumed THEN 1 ELSE 0
  /\ UNCHANGED << rosterVars, m_window, m_interception, registered,
                  m_shutdown, m_handle_with_hardware_ids, m_handle_by_device,
                  m_device_by_handle, m_last_keyboard, m_last_mouse, host_pc,
                  host_arg, join_ctx, th_pc, th_device, th_stroke, msg,
                  received, injected, delivered, dev_ret >>

\* SendMessageA returns: continue, or interception_send (lines 302-307)
ThreadReply ==
  /\ th_pc = "blocked"
  /\ msg_reply # NoReply
  /\ LET n == Len(received)
     IN /\ received' = [ received EXCEPT ![n].reply = msg_reply,
                                         ![n].done = TRUE ]
        /\ injected' = IF Consumed(msg_reply) THEN injected
                       ELSE Append(injected,
                              [ n |-> n,
                                sent |-> Reinjected(th_device, th_stroke) ])
  /\ msg' = NoMsg
  /\ msg_reply' = NoReply
  /\ th_pc' = "loop"
  /\ UNCHANGED << rosterVars, m_window, m_interception, registered,
                  m_shutdown, m_handle_with_hardware_ids, m_handle_by_device,
                  m_device_by_handle, m_last_keyboard, m_last_mouse, host_pc,
                  host_arg, join_ctx, th_device, th_stroke, delivered,
                  dev_ret >>

\* ---------------------------------------------------------------------------
\* Devices::send_input (lines 440-446), Interception::send_keyboard_input and
\* send_mouse_input (lines 238-250)
\* ---------------------------------------------------------------------------
\* is_keyboard_key: the keys that are not mouse buttons or wheels
is_keyboard_key(key) ==
  key \notin { Key.ButtonLeft, Key.ButtonRight, Key.ButtonMiddle,
               Key.ButtonBack, Key.ButtonForward, Key.WheelUp, Key.WheelDown,
               Key.WheelLeft, Key.WheelRight }

\* the events the host sends: a key and a mouse button
SendEvents == { KeyEvent(30, "Down", 0), KeyEvent(Key.ButtonLeft, "Down", 0) }

\* the calls of interception_send made by the host thread so far
HostSends == { i \in 1..Len(injected) : injected[i].n = 0 }

\* interception_send(m_context, m_last_keyboard, &stroke, 1) (line 242) or
\* interception_send(m_context, m_last_mouse, &stroke, 1) (line 249)
SendInput(event) ==
  /\ host_pc = "idle"
  /\ m_interception => Cardinality(HostSends) < MaxSends
  /\ injected' =
       IF ~m_interception THEN injected
       ELSE IF is_keyboard_key(event.key)
       THEN Append(injected,
              [ n |-> 0, keyboard |-> TRUE,
                sent |-> Reinjected(m_last_keyboard,
                                    get_interception_key_stroke(event)) ])
       ELSE Append(injected,
              [ n |-> 0, keyboard |-> FALSE,
                sent |-> Reinjected(m_last_mouse,
                                    get_interception_mouse_stroke(event)) ])
  /\ UNCHANGED << rosterVars, m_window, m_interception, registered,
                  m_shutdown, m_handle_with_hardware_ids, m_handle_by_device,
                  m_device_by_handle, m_last_keyboard, m_last_mouse, host_pc,
                  host_arg, join_ctx, th_pc, th_device, th_stroke, msg,
                  msg_reply, received, delivered, dev_ret >>

\* Devices with no Interception object: registered tells whether an earlier
\* initialize() has registered the window for device notifications
NoInterception(was_registered, ret) ==
  /\ m_window = FALSE
  /\ m_interception = FALSE
  /\ registered = was_registered
  /\ m_shutdown = FALSE
  /\ m_handle_with_hardware_ids = << >>
  /\ m_handle_by_device = EmptyByDevice
  /\ m_device_by_handle = EmptyByHandle
  /\ m_last_keyboard = NoSlot
  /\ m_last_mouse = NoSlot
  /\ host_pc = "idle"
  /\ host_arg = NullHandle
  /\ join_ctx = "shutdown"
  /\ th_pc = "none"
  /\ th_device = NoSlot
  /\ th_stroke = NoStroke
  /\ msg = NoMsg
  /\ msg_reply = NoReply
  /\ received = << >>
  /\ injected = << >>
  /\ delivered = << >>
  /\ dev_ret = DevRet(ret, ret # "none")

InitInterception == NoInterception(FALSE, "none")

\* ---------------------------------------------------------------------------
\* The virtual device: initial state and next-state relation
\* ---------------------------------------------------------------------------
InitVD ==
  /\ m_impl = FALSE
  /\ m_state = "initializing"
  /\ m_client = FALSE
  /\ m_keyboard = {}
  /\ m_consumer = {}
  /\ m_desktop = {}
  /\ m_fn_key_hold = FALSE
  /\ vd_pc = "idle"
  /\ close_ctx = "reset"
  /\ create_i = 0
  /\ close_i = 0
  /\ vd_create = NoCreate
  /\ vd_last = NoCall
  /\ num_reports = 0
  /\ last_report = NoReport
  /\ last_signal = NoSignal

\* ---------------------------------------------------------------------------
\* main (part_001): the update loop (lines 72-128)
\* ---------------------------------------------------------------------------
EV_SYN == 0
EV_KEY == 1
EV_REL == 2
EV_MSC == 4

\* an entry of a KeySequence; the state of a marker is OutputOnRelease
OutA == [ key |-> 30, state |-> "Down" ]
OutB == [ key |-> 30, state |-> "Up" ]
OutC == [ key |-> 48, state |-> "Down" ]
Marker == [ key |-> 0, state |-> "OutputOnRelease" ]

\* what stage->apply_input may return
OutputSequences ==
  { << >>, << OutA >>, << OutA, Marker >>, << Marker, OutB >>,
    << OutA, Marker, OutB, Marker, OutC >> }

\* what read_keyboard_event may deliver: key events with value 0 (release),
\* 1 (press), 2 (repeat), and events of other types
KeyCodes == { 30 }
KeyValues == { 0, 1, 2 }
OtherTypes == { EV_SYN, EV_REL, EV_MSC }

RECURSIVE NotOnRelease(_)
\* the entries a loop with the test of line 105 sends
NotOnRelease(seq) ==
  IF seq = << >> THEN << >>
  ELSE IF Head(seq).state # "OutputOnRelease"
  THEN << Head(seq) >> \o NotOnRelease(Tail(seq))
  ELSE NotOnRelease(Tail(seq))

\* a loop of lines 113-119 that does not stop at a marker
FirstOnRelease_End(seq, i) == Len(seq) + 1

RECURSIVE FirstOnRelease(_, _)
\* the position at which the loop of lines 113-119 stops, counted from 1:
\* the first marker, or one past the end
FirstOnRelease(seq, i) ==
  IF i > Len(seq) THEN i
  ELSE IF seq[i].state = "OutputOnRelease" THEN i
  ELSE FirstOnRelease(seq, i + 1)

\* send_key_event(uinput_fd, event) for each entry, send_event for others
Written(seq) ==
  [ i \in 1..Len(seq) |-> [ kind |-> "key", key |-> seq[i].key,
                            state |-> seq[i].state ] ]

\* n counts the iterations of the loop, repeats those that ended at line 101
Iteration(n, repeats, type, value, did) ==
  [ n |-> n, repeats |-> repeats, type |-> type, value |-> value,
    did |-> did ]

InitMain ==
  /\ main_pc = "loop"
  /\ output_buffer = << >>
  /\ uinput = << >>
  /\ flushed = 0
  /\ applied = << >>
  /\ returned = << >>
  /\ iteration = Iteration(0, 0, EV_SYN, 0, "none")

\* read_keyboard_event fails (lines 78-81), or update_ipc fails (lines 84-88)
\* after an event of any type was read: break
LeaveLoop ==
  /\ main_pc = "loop"
  /\ main_pc' = "left"
  /\ iteration' = [ iteration EXCEPT !.did = "break" ]
  /\ UNCHANGED << output_buffer, uinput, flushed, applied, returned >>

\* a key event while output is held back and value is 2 (lines 98-101)
KeyRepeatSuppressed(code) ==
  /\ main_pc = "loop"
  /\ iteration.n < MaxIterations
  /\ output_buffer # << >>
  /\ iteration' = Iteration(iteration.n + 1, iteration.repeats + 1, EV_KEY, 2,
                          "continue")
  /\ UNCHANGED << main_pc, output_buffer, uinput, flushed, applied, returned >>

\* any other key event (lines 90-122); out is what apply_input returns
KeyInput(code, value, out) ==
  /\ main_pc = "loop"
  /\ iteration.n < MaxIterations
  /\ ~(output_buffer # << >> /\ value = 2)
  /\ LET event == [ key |-> code,
                    state |-> IF value = 0 THEN "Up" ELSE "Down" ]
         it == FirstOnRelease(out, 1)
     IN /\ applied' = Append(applied, event)
        /\ returned' = returned \o out
        /\ uinput' = uinput \o Written(NotOnRelease(output_buffer))
                            \o Written(SubSeq(out, 1, it - 1))
        /\ flushed' = Len(uinput')
        /\ output_buffer' = SubSeq(out, it, Len(out))
  /\ iteration' = Iteration(iteration.n + 1, iteration.repeats, EV_KEY, value,
                          "apply")
  /\ UNCHANGED main_pc

\* an event of another type (lines 123-127): forwarded unless EV_SYN or EV_MSC
OtherInput(type, code, value) ==
  /\ main_pc = "loop"
  /\ iteration.n < MaxIterations
  /\ type # EV_KEY
  /\ IF type # EV_SYN /\ type # EV_MSC
     THEN /\ uinput' = Append(uinput, [ kind |-> "other", key |-> code,
                                        state |-> "none" ])
          /\ iteration' = Iteration(iteration.n + 1, iteration.repeats, type,
                                  value, "forward")
     ELSE /\ UNCHANGED uinput
          /\ iteration' = Iteration(iteration.n + 1, iteration.repeats, type,
                                  value, "skip")
  /\ UNCHANGED << main_pc, output_buffer, flushed, applied, returned >>

notMain == << vdVars, rosterVars, icVars, fnVars >>

NextMain ==
  \/ LeaveLoop /\ UNCHANGED notMain
  \/ \E code \in KeyCodes : KeyRepeatSuppressed(code) /\ UNCHANGED notMain
  \/ \E code \in KeyCodes, value \in KeyValues, out \in OutputSequences :
       KeyInput(code, value, out) /\ UNCHANGED notMain
  \/ \E type \in OtherTypes, code \in KeyCodes :
       OtherInput(type, code, 1) /\ UNCHANGED notMain

\* no free function is being applied
NoFunction ==
  /\ fn_pc = "none"
  /\ fn_in = << >>
  /\ fn_out = << >>

Init == InitVD /\ InitRoster /\ InitInterception /\ NoFunction /\ InitMain

NextVD ==
  \/ ServiceSignal /\ UNCHANGED notVD
  \/ CreateFresh /\ UNCHANGED notVD
  \/ CreateReset /\ UNCHANGED notVD
  \/ ClosePoll /\ UNCHANGED notVD
  \/ CloseExit /\ UNCHANGED notVD
  \/ CloseReturnReset /\ UNCHANGED notVD
  \/ CloseReturnFailed /\ UNCHANGED notVD
  \/ CreatePoll /\ UNCHANGED notVD
  \/ CreateReturn /\ UNCHANGED notVD
  \/ \E event \in KeyEvents : SendKeyEvent(event) /\ UNCHANGED notVD
  \/ \E page \in Pages, usage \in Usages, value \in Values :
       SendEvent(page, usage, value) /\ UNCHANGED notVD

SpecVD == Init /\ [][NextVD]_vars

\* the roster alone: initialize() has succeeded and shutdown() has returned
\* before any device is announced, so the window receives the notifications
\* and there is no Interception object
InitRegistered ==
  InitVD /\ InitRoster /\ NoInterception(TRUE, "true") /\ NoFunction
    /\ InitMain

NextRoster ==
  \/ \E device \in Handles, ok \in BOOLEAN, desc \in Descs :
       OnDeviceAttached(device, ok, desc) /\ UNCHANGED notDevices
  \/ \E device \in Handles \cup { NullHandle } :
       OnDeviceRemoved(device) /\ UNCHANGED notDevices
  \/ \E filters \in FilterLists : SetGrabFilters(filters) /\ UNCHANGED notDevices

SpecRoster == InitRegistered /\ [][NextRoster]_vars

\* the descriptor the OS resolves for a handle when the strokes are modelled
DescOf(device) ==
  [ name |-> IF device = 1 THEN "n1" ELSE "n2", id |-> "i1" ]

\* the capture thread under strokes, with the host thread's operations
NextCapture ==
  \/ InitializeStart /\ UNCHANGED notDevices
  \/ \E ok \in BOOLEAN : InitializeRegister(ok) /\ UNCHANGED notDevices
  \/ Shutdown /\ UNCHANGED notDevices
  \/ JoinDone /\ UNCHANGED notDevices
  \/ \E device \in Handles :
       OnDeviceAttached(device, TRUE, DescOf(device)) /\ UNCHANGED notDevices
  \/ AttachInterception /\ UNCHANGED notDevices
  \/ ThreadLoop /\ UNCHANGED notDevices
  \/ ThreadTimeout /\ UNCHANGED notDevices
  \/ \E device \in PopulatedSlots : \E stroke \in StrokesOf(device) :
       ThreadReceive(device, stroke) /\ UNCHANGED notDevices
  \/ ThreadLookup /\ UNCHANGED notDevices
  \/ \E consumed \in BOOLEAN : HandleInput(consumed) /\ UNCHANGED notDevices
  \/ ThreadReply /\ UNCHANGED notDevices

\* the steps the capture thread takes by itself
ThreadStep ==
  /\ ThreadLoop \/ ThreadTimeout \/ ThreadLookup \/ ThreadReply
  /\ UNCHANGED notDevices

\* the steps the host thread takes by itself: the join returns once the
\* thread has ended, RegisterRawInputDevices returns, the message loop runs the
\* window procedure; nothing is assumed about AttachInterception, whose
\* matching need not return
HostStep ==
  /\ \/ JoinDone
     \/ \E ok \in BOOLEAN : InitializeRegister(ok)
     \/ \E consumed \in BOOLEAN : HandleInput(consumed)
  /\ UNCHANGED notDevices

SpecCapture ==
  Init /\ [][NextCapture]_vars /\ WF_vars(ThreadStep) /\ WF_vars(HostStep)

\* the steps of the host thread inside create() and close(): sleep_for returns,
\* loads and stores complete
HostStepVD ==
  /\ \/ ClosePoll
     \/ CloseExit
     \/ CloseReturnReset
     \/ CloseReturnFailed
     \/ CreatePoll
     \/ CreateReturn
  /\ UNCHANGED notVD

SpecVDFair == Init /\ [][NextVD]_vars /\ WF_vars(HostStepVD)

\* ---------------------------------------------------------------------------
\* The conversions between canonical events and native strokes, applied to
\* one event: send_keyboard_input / send_mouse_input convert the event to a
\* stroke (lines 241, 248), thread_func converts a stroke back (lines 296, 299)
\* ---------------------------------------------------------------------------
\* key codes with none, all, one and two of the three top bits set
KeyboardKeys == { 30, 57416, 8222, 49182 }
MouseKeys ==
  { Key.ButtonLeft, Key.ButtonRight, Key.ButtonMiddle, Key.ButtonBack,
    Key.ButtonForward, Key.WheelUp, Key.WheelDown, Key.WheelLeft,
    Key.WheelRight }
WheelKeys == { Key.WheelUp, Key.WheelDown, Key.WheelLeft, Key.WheelRight }
Magnitudes == { 0, 1, WHEEL_DELTA }

KeyboardEvents ==
  { KeyEvent(key, state, value) :
      key \in KeyboardKeys, state \in KeyState, value \in Magnitudes }
MouseEvents ==
  { KeyEvent(key, state, value) :
      key \in MouseKeys, state \in KeyState, value \in Magnitudes }

InitConvert ==
  /\ InitVD /\ InitRoster /\ InitInterception /\ InitMain
  /\ \/ fn_pc = "keyboard" /\ fn_in \in { << event >> : event \in KeyboardEvents }
     \/ fn_pc = "mouse" /\ fn_in \in { << event >> : event \in MouseEvents }
  /\ fn_out = << >>

KeyToStroke ==
  /\ fn_pc = "keyboard"
  /\ Len(fn_out) = 0
  /\ fn_out' = << get_interception_key_stroke(fn_in[1]) >>
  /\ UNCHANGED << fn_pc, fn_in >>

StrokeToKey ==
  /\ fn_pc = "keyboard"
  /\ Len(fn_out) = 1
  /\ fn_out' = Append(fn_out, get_key_event_key(fn_out[1]))
  /\ UNCHANGED << fn_pc, fn_in >>

MouseToStroke ==
  /\ fn_pc = "mouse"
  /\ Len(fn_out) = 0
  /\ fn_out' = << get_interception_mouse_stroke(fn_in[1]) >>
  /\ UNCHANGED << fn_pc, fn_in >>

StrokeToMouse ==
  /\ fn_pc = "mouse"
  /\ Len(fn_out) = 1
  /\ fn_out' = Append(fn_out, get_key_event_mouse(fn_out[1]))
  /\ UNCHANGED << fn_pc, fn_in >>

notFunction == << vdVars, rosterVars, icVars, mainVars >>

NextConvert ==
  \/ KeyToStroke /\ UNCHANGED notFunction
  \/ StrokeToKey /\ UNCHANGED notFunction
  \/ MouseToStroke /\ UNCHANGED notFunction
  \/ StrokeToMouse /\ UNCHANGED notFunction

SpecConvert == InitConvert /\ [][NextConvert]_vars


\* ---------------------------------------------------------------------------
\* match_hardware_ids applied to one pair of lists, in both orders, as
\* get_device_handle_by_hardware_id applies it (line 264).  A call whose loop
\* never ends does not return: its result stays pending.
\* ---------------------------------------------------------------------------
MaxIdLen == 3

IdChars == { "V1", "V1b", "x", NUL }

RECURSIVE ListsOfLen(_)
ListsOfLen(n) ==
  IF n = 0 THEN { << >> }
  ELSE { Append(list, ch) : list \in ListsOfLen(n - 1), ch \in IdChars }

IdLists == UNION { ListsOfLen(n) : n \in 0..MaxIdLen }

InitMatch ==
  /\ InitVD /\ InitRoster /\ InitInterception /\ InitMain
  /\ fn_pc = "match"
  /\ fn_in \in IdLists \X IdLists
  /\ fn_out = << "pending", "pending" >>

MatchAB ==
  /\ fn_pc = "match"
  /\ fn_out[1] = "pending"
  /\ match_hardware_ids(fn_in[1], fn_in[2]) # "diverges"
  /\ fn_out' = [ fn_out EXCEPT ![1] = match_hardware_ids(fn_in[1], fn_in[2]) ]
  /\ UNCHANGED << fn_pc, fn_in >>

MatchBA ==
  /\ fn_pc = "match"
  /\ fn_out[2] = "pending"
  /\ match_hardware_ids(fn_in[2], fn_in[1]) # "diverges"
  /\ fn_out' = [ fn_out EXCEPT ![2] = match_hardware_ids(fn_in[2], fn_in[1]) ]
  /\ UNCHANGED << fn_pc, fn_in >>

NextMatch ==
  \/ MatchAB /\ UNCHANGED notFunction
  \/ MatchBA /\ UNCHANGED notFunction

SpecMatch == InitMatch /\ [][NextMatch]_vars


\* ---------------------------------------------------------------------------
\* Devices::initialize and Devices::shutdown called in any order, with the
\* driver present or not and the registration succeeding or not, and devices
\* announced in between
\* ---------------------------------------------------------------------------
NextInitialize ==
  \/ InitializeAgain /\ UNCHANGED notDevices
  \/ InitializeNoDriver /\ UNCHANGED notDevices
  \/ InitializeStart /\ UNCHANGED notDevices
  \/ \E ok \in BOOLEAN : InitializeRegister(ok) /\ UNCHANGED notDevices
  \/ Shutdown /\ UNCHANGED notDevices
  \/ JoinDone /\ UNCHANGED notDevices
  \/ ThreadLoop /\ UNCHANGED notDevices
  \/ ThreadTimeout /\ UNCHANGED notDevices
  \/ \E device \in Handles :
       OnDeviceAttached(device, TRUE, DescOf(device)) /\ UNCHANGED notDevices
  \/ AttachInterception /\ UNCHANGED notDevices
  \/ \E device \in Handles : OnDeviceRemoved(device) /\ UNCHANGED notDevices

SpecInitialize == Init /\ [][NextInitialize]_vars


\* ---------------------------------------------------------------------------
\* The capture thread and the host thread with grab filters: set_grab_filters,
\* initialize, attaches and strokes
\* ---------------------------------------------------------------------------
\* no rule, and a rule that excludes the device named n1
CaptureFilters == { << >>, << Filter(FALSE, "n1", FALSE) >> }

NextFiltered ==
  \/ \E filters \in CaptureFilters :
       SetGrabFilters(filters) /\ UNCHANGED notDevices
  \/ InitializeStart /\ UNCHANGED notDevices
  \/ \E ok \in BOOLEAN : InitializeRegister(ok) /\ UNCHANGED notDevices
  \/ JoinDone /\ UNCHANGED notDevices
  \/ \E device \in Handles :
       OnDeviceAttached(device, TRUE, DescOf(device)) /\ UNCHANGED notDevices
  \/ AttachInterception /\ UNCHANGED notDevices
  \/ ThreadLoop /\ UNCHANGED notDevices
  \/ ThreadTimeout /\ UNCHANGED notDevices
  \/ \E device \in PopulatedSlots : \E stroke \in StrokesOf(device) :
       ThreadReceive(device, stroke) /\ UNCHANGED notDevices
  \/ ThreadLookup /\ UNCHANGED notDevices
  \/ \E consumed \in BOOLEAN : HandleInput(consumed) /\ UNCHANGED notDevices
  \/ ThreadReply /\ UNCHANGED notDevices

SpecFiltered == Init /\ [][NextFiltered]_vars


\* ---------------------------------------------------------------------------
\* The capture thread with every operation of the host thread: filters,
\* initialize, attach, detach, send_input
\* ---------------------------------------------------------------------------
\* the slots that send strokes here, and one stroke for each
HostSlots == { 1 }
HostStrokes(device) ==
  IF is_keyboard(device) THEN { [ code |-> 30, state |-> 0 ] }
  ELSE { [ state |-> 1, rolling |-> 0 ] }

NextHost ==
  \/ \E filters \in CaptureFilters :
       SetGrabFilters(filters) /\ UNCHANGED notDevices
  \/ InitializeStart /\ UNCHANGED notDevices
  \/ InitializeRegister(TRUE) /\ UNCHANGED notDevices
  \/ \E device \in Handles :
       OnDeviceAttached(device, TRUE, DescOf(device)) /\ UNCHANGED notDevices
  \/ AttachInterception /\ UNCHANGED notDevices
  \/ \E device \in Handles : OnDeviceRemoved(device) /\ UNCHANGED notDevices
  \/ \E event \in SendEvents : SendInput(event) /\ UNCHANGED notDevices
  \/ ThreadLoop /\ UNCHANGED notDevices
  \/ ThreadTimeout /\ UNCHANGED notDevices
  \/ \E device \in HostSlots : \E stroke \in HostStrokes(device) :
       ThreadReceive(device, stroke) /\ UNCHANGED notDevices
  \/ ThreadLookup /\ UNCHANGED notDevices
  \/ \E consumed \in BOOLEAN : HandleInput(consumed) /\ UNCHANGED notDevices
  \/ ThreadReply /\ UNCHANGED notDevices

SpecHost == Init /\ [][NextHost]_vars


\* ---------------------------------------------------------------------------
\* The update loop of main
\* ---------------------------------------------------------------------------
SpecMain == Init /\ [][NextMain]_vars

\* ===========================================================================
\* Claims
\* ===========================================================================

\* the handles of the devices attached and not yet removed
Known == { h \in Handles : attached[h] # NoDesc }

\* what the current filter set decides for a known device
Grab(h) ==
  evaluate_grab_filters(m_grab_filters, attached[h].name, attached[h].id, TRUE)

Captured == Range(m_device_handles)
Ignored == Range(m_ignored_device_handles)

\* a known device is in the collection the current filter set assigns it to
Classified(h) ==
  IF Grab(h) THEN h \in Captured /\ h \notin Ignored
  ELSE h \in Ignored /\ h \notin Captured

C2_SetGrabFilters ==
  roster_last.op = "set_grab_filters" =>
    /\ \A h \in Known : Classified(h)
    /\ Len(m_device_descs) = Len(m_device_handles)
    /\ Len(m_ignored_device_descs) = Len(m_ignored_device_handles)
    /\ \A i \in 1..Len(m_device_handles) :
         m_device_descs[i] = attached[m_device_handles[i]]
    /\ \A i \in 1..Len(m_ignored_device_handles) :
         m_ignored_device_descs[i] = attached[m_ignored_device_handles[i]]

\* set_grab_filters moved one device from captured to ignored and another one
\* from ignored to captured
C2_Witness ==
  /\ roster_last.op = "set_grab_filters"
  /\ roster_last.captured \cap Ignored # {}
  /\ roster_last.ignored \cap Captured # {}

EntriesOf(log, n) == { i \in 1..Len(log) : log[i].n = n }

\* the n-th received stroke as interception_send would carry it unchanged
Unchanged(n) ==
  [ device |-> received[n].device, stroke |-> received[n].stroke ]

\* C4: a stroke whose slot resolves to no handle is sent back to the driver
\* once, unchanged and on its slot, is never delivered to the host, and the
\* capture thread's step leaves the most recent keyboard and mouse as they are.
C4_Unresolved ==
  /\ [](\A n \in 1..Len(received) :
          received[n].handle = NullHandle =>
            /\ received[n].done
            /\ EntriesOf(delivered, n) = {}
            /\ Cardinality(EntriesOf(injected, n)) = 1
            /\ \A i \in EntriesOf(injected, n) : injected[i].sent = Unchanged(n))
  /\ [][ th_pc = "lookup" /\ th_pc' = "loop" =>
           /\ received'[Len(received)].handle = NullHandle
           /\ m_last_keyboard' = m_last_keyboard
           /\ m_last_mouse' = m_last_mouse
           /\ msg' = msg ]_vars

\* with a device registered, a stroke of a slot without a handle went back to
\* the driver
C4_Witness ==
  /\ m_handle_with_hardware_ids # << >>
  /\ m_last_keyboard # NoSlot
  /\ \E n \in 1..Len(received) :
       /\ received[n].handle = NullHandle
       /\ received[n].done
       /\ received[n].device # m_last_keyboard
       /\ EntriesOf(injected, n) # {}

\* C5: a stroke whose slot resolves to a handle is delivered to the host once,
\* with that handle and its event; when the host has answered it is either
\* dropped (consumed) or sent back unchanged on its slot (not consumed), and
\* never both or the other way round.
C5_Resolved ==
  \A n \in 1..Len(received) :
    received[n].handle \in Handles =>
      /\ Cardinality(EntriesOf(delivered, n)) = 1
      /\ \A i \in EntriesOf(delivered, n) :
           /\ delivered[i].msg.handle = received[n].handle
           /\ delivered[i].msg.key =
                StrokeEvent(received[n].device, received[n].stroke).key
           /\ delivered[i].msg.state =
                StrokeEvent(received[n].device, received[n].stroke).state
      /\ ~received[n].done => EntriesOf(injected, n) = {}
      /\ received[n].done /\ received[n].reply = 1 =>
           EntriesOf(injected, n) = {}
      /\ received[n].done /\ received[n].reply # 1 =>
           /\ Cardinality(EntriesOf(injected, n)) = 1
           /\ \A i \in EntriesOf(injected, n) :
                injected[i].sent = Unchanged(n)
      /\ received[n].done => received[n].reply \in { 0, 1 }

\* one delivered stroke was consumed and dropped, another one was declined and
\* sent back
C5_Witness ==
  \E n, k \in 1..Len(received) :
    /\ received[n].handle \in Handles /\ received[k].handle \in Handles
    /\ received[n].done /\ received[n].reply = 1
    /\ received[k].done /\ received[k].reply = 0
    /\ EntriesOf(injected, k) # {}

\* C6: once ~Interception has set m_shutdown and joins, the capture thread
\* leaves its loop and the join returns, whatever the thread was doing.
C6_JoinCompletes == (host_pc = "join") ~> (host_pc = "idle")

\* a step that constructs or destroys the implementation object
InstanceChange ==
  \/ vd_pc # "create_poll" /\ vd_pc' = "create_poll"
  \/ vd_pc = "close_ret"

\* C7: within one instance the connection state only moves
\* Initializing->Connected (on ready(true)), Initializing->Disconnected and
\* Connected->Disconnected; once Disconnected no signal changes it again.
C7_StateTransitions ==
  [][ ~InstanceChange =>
        /\ m_state = "disconnected" => m_state' = "disconnected"
        /\ m_state' # m_state =>
             << m_state, m_state' >> \in
               { << "initializing", "connected" >>,
                 << "initializing", "disconnected" >>,
                 << "connected", "disconnected" >> }
        /\ m_state = "initializing" /\ m_state' = "connected" =>
             Signal("virtual_hid_keyboard_ready", TRUE) ]_vars

\* C7 witness: a connected instance went Disconnected, a ready(true) signal
\* arrived afterwards, and the state is still Disconnected
C7_Witness ==
  /\ m_impl
  /\ vd_pc = "idle"
  /\ m_state = "disconnected"
  /\ last_signal = "ready"

C8_Safety ==
  /\ create_i <= CreatePolls
  /\ vd_pc = "create_final" =>
       vd_create.seen # "initializing" \/ create_i = CreatePolls
  /\ vd_create.returned =>
       /\ vd_create.polls <= CreatePolls
       /\ vd_create.result = (vd_create.final = "connected")
       /\ vd_create.final = "initializing" =>
            ~vd_create.result /\ vd_create.polls = CreatePolls
       /\ vd_create.failed => ~vd_create.result
       /\ vd_create.seen = "initializing" => vd_create.polls = CreatePolls
       /\ vd_pc = "idle" => m_impl = vd_create.result

\* C8: create() returns after at most 30 polls (sleeps): true exactly when the
\* final check finds Connected, false when the final check after the 30th poll
\* still finds Initializing, false when a failure signal (connect failure,
\* error, version mismatch, close) arrived before Connected; it leaves the loop
\* before the 30th poll only when the state is no longer Initializing.
C8_CreateBounded ==
  /\ []C8_Safety
  /\ (vd_pc = "create_poll") ~> vd_create.returned

\* C8 witness: a create() that timed out after 30 polls and returned false
C8_Witness ==
  /\ vd_create.returned
  /\ vd_create.polls = CreatePolls
  /\ vd_create.final = "initializing"
  /\ ~vd_create.result

\* C9: close() ends after at most 20 polls, whether or not the service reports
\* closed, and on return m_client is empty whatever the state is.
C9_CloseBounded ==
  /\ [](close_i <= ClosePolls)
  /\ [](vd_pc = "close_ret" => ~m_client)
  /\ (vd_pc = "close_poll") ~> (vd_pc = "close_ret")

\* C9 witness: close() returned after 20 polls with the state still Connected
C9_Witness ==
  /\ vd_pc = "close_ret"
  /\ close_i = ClosePolls
  /\ m_state = "connected"
  /\ ~m_client

\* C10: a send_key_event while the state is not Connected returns false, posts
\* no report and leaves the three held-key sets and the secondary-layer flag
\* alone; while Connected it returns true.
C10_SendKeyEventGuarded ==
  /\ [][ (\E event \in KeyEvents : SendKeyEvent(event)) =>
           IF m_state = "connected"
           THEN vd_last'.ret
           ELSE /\ ~vd_last'.ret
                /\ ~vd_last'.posted
                /\ num_reports' = num_reports
                /\ last_report' = last_report
                /\ UNCHANGED << m_keyboard, m_consumer, m_desktop,
                                m_fn_key_hold >> ]_vars
  /\ [](\A event \in KeyEvents :
          LET r == Impl_send_key_event(m_state, m_fn_key_hold, m_keyboard,
                                       m_consumer, m_desktop, event)
          IN IF m_state = "connected"
             THEN r.ret
             ELSE /\ ~r.ret
                  /\ ~r.posted
                  /\ r.kb = m_keyboard
                  /\ r.cs = m_consumer
                  /\ r.dk = m_desktop)

\* C10 witness: send_key_event was called on a Disconnected device that holds
\* keys, and returned false
C10_Witness ==
  /\ vd_last.op = "send_key_event"
  /\ vd_last.impl
  /\ vd_last.state = "disconnected"
  /\ ~vd_last.ret
  /\ m_keyboard # {}
  /\ m_consumer # {}

\* the function keys F1..F12
FunctionKeys ==
  { Key.F1, Key.F2, Key.F3, Key.F4, Key.F5, Key.F6, Key.F7, Key.F8, Key.F9,
    Key.F10, Key.F11, Key.F12 }

\* the category the event belongs to, by the secondary-layer flag
C11_Category(fn, key) ==
  IF ~fn /\ key = Key.F6 THEN "desktop"
  ELSE IF ~fn /\ key \in FunctionKeys THEN "consumer"
  ELSE "keyboard"

\* the usage the event stands for in its category
C11_Usage(cat, key) ==
  CASE cat = "desktop" -> "DoNotDisturb"
    [] cat = "consumer" /\ key = Key.F1 -> "DisplayBrightnessDecrement"
    [] cat = "consumer" /\ key = Key.F2 -> "DisplayBrightnessIncrement"
    [] cat = "consumer" -> ConsumerUsage(key)
    [] OTHER -> key

\* the held-key set of a category
C11_Held(cat) ==
  CASE cat = "desktop" -> m_desktop
    [] cat = "consumer" -> m_consumer
    [] OTHER -> m_keyboard

\* C11: while Connected every send_key_event posts exactly one report, of the
\* event's category (F6 to generic desktop and the other F1..F12 to consumer
\* control when the secondary layer is inactive, everything else to the
\* keyboard with the raw code); the report carries that category's held set
\* with the usage inserted on Down or erased on Up, and the other two sets
\* stay as they are.
C11_OneReportPerEvent ==
  [][ \A event \in KeyEvents :
        SendKeyEvent(event) /\ m_impl /\ m_state = "connected" =>
          LET cat == C11_Category(m_fn_key_hold, event.key)
              usage == C11_Usage(cat, event.key)
              keys == IF event.state = "Down"
                      THEN C11_Held(cat) \cup { usage }
                      ELSE C11_Held(cat) \ { usage }
          IN /\ num_reports' = num_reports + 1
             /\ last_report' = [ category |-> cat, keys |-> keys ]
             /\ m_desktop' = IF cat = "desktop" THEN keys ELSE m_desktop
             /\ m_consumer' = IF cat = "consumer" THEN keys ELSE m_consumer
             /\ m_keyboard' = IF cat = "keyboard" THEN keys ELSE m_keyboard
             /\ vd_last'.ret ]_vars

\* the third report of Down(F1), Down(F2), Up(F1) with the layer inactive
C11_Witness ==
  /\ vd_last.op = "send_key_event"
  /\ vd_last.state = "connected"
  /\ ~m_fn_key_hold
  /\ num_reports = 3
  /\ last_report = [ category |-> "consumer",
                     keys |-> { "DisplayBrightnessIncrement" } ]
  /\ m_consumer = { "DisplayBrightnessIncrement" }
  /\ m_keyboard = {}
  /\ m_desktop = {}

\* C12: send_event with the keyboard page and a usage outside
\* [KeyboardA, KeyboardRightGUI] returns false and changes nothing; otherwise
\* it returns true, posts no report, changes no held-key set, and changes the
\* secondary-layer flag only for page 0xFF, to value != 0.
C12_SendEvent ==
  [][ \A page \in Pages, usage \in Usages, value \in Values :
        SendEvent(page, usage, value) /\ m_impl =>
          /\ num_reports' = num_reports
          /\ last_report' = last_report
          /\ UNCHANGED << m_keyboard, m_consumer, m_desktop, m_state >>
          /\ IF /\ page = kHIDPage_KeyboardOrKeypad
                /\ usage \notin kHIDUsage_KeyboardA..kHIDUsage_KeyboardRightGUI
             THEN ~vd_last'.ret /\ m_fn_key_hold' = m_fn_key_hold
             ELSE /\ vd_last'.ret
                  /\ m_fn_key_hold' = IF page = FnPage THEN value # 0
                                      ELSE m_fn_key_hold ]_vars

\* a send_event was rejected while the layer flag was set and keys were held
C12_Witness ==
  /\ vd_last.op = "send_event"
  /\ vd_last.impl
  /\ ~vd_last.ret
  /\ m_fn_key_hold
  /\ m_keyboard # {}

\* C13: once the state is Disconnected every send call, send_key_event and
\* send_event alike, returns false and changes neither the held-key sets nor
\* the secondary-layer flag.
C13_SendsInert ==
  [][ /\ m_impl
      /\ m_state = "disconnected"
      /\ \/ \E event \in KeyEvents : SendKeyEvent(event)
         \/ \E page \in Pages, usage \in Usages, value \in Values :
              SendEvent(page, usage, value)
      => /\ ~vd_last'.ret
         /\ UNCHANGED << m_keyboard, m_consumer, m_desktop, m_fn_key_hold >>
    ]_vars

\* ---------------------------------------------------------------------------
\* C14: for every canonical event, converting it to a native stroke and back
\* yields the same event, for keyboard keys and for the five mouse buttons;
\* for the four wheel keys the key and the magnitude are preserved and the
\* state is normalized to Up.  For keys and buttons the events are compared by
\* key and state: the strokes carry no value, and the comparison of KeyEvent
\* is not part of these files
\* ---------------------------------------------------------------------------
C14_RoundTrip ==
  Len(fn_out) = 2 =>
    IF fn_in[1].key \in WheelKeys
    THEN /\ fn_out[2].key = fn_in[1].key
         /\ fn_out[2].value = fn_in[1].value
         /\ fn_out[2].state = "Up"
    ELSE /\ fn_out[2].key = fn_in[1].key
         /\ fn_out[2].state = fn_in[1].state

\* ---------------------------------------------------------------------------
\* C15: hardware-id matching is symmetric: whenever match_hardware_ids(A, B)
\* and match_hardware_ids(B, A) have both returned, they have returned the
\* same, although only the entries of the first argument are tested for a
\* backslash
\* ---------------------------------------------------------------------------
C15_Symmetric ==
  (fn_pc = "match" /\ fn_out[1] # "pending" /\ fn_out[2] # "pending")
    => fn_out[1] = fn_out[2]

\* a list whose first entry has no backslash and whose second entry names a
\* triple, and a list that spells the same triple differently: matched in both
\* orders
C15_Witness ==
  /\ fn_pc = "match"
  /\ fn_in = << << "x", NUL, "V1" >>, << "V1b", NUL >> >>
  /\ fn_out = << "match", "match" >>

\* ---------------------------------------------------------------------------
\* C16: a failure of Devices::initialize is not sticky: a call of initialize
\* that returns false has attempted the setup, so that a call made after a
\* failed one returns true when the driver and the registration then succeed
\* ---------------------------------------------------------------------------
C16_FailureNotSticky == dev_ret.ret = "false" => dev_ret.attempted

\* ---------------------------------------------------------------------------
\* C17: once get_device_handle has resolved a slot to a handle, every later
\* lookup of the slot returns the same handle, across attaches, until the
\* Interception object is destroyed; a lookup that resolves a handle caches
\* it, and a lookup that finds no match caches nothing and is a full scan
\* again the next time.  Stated for the steps in which the capture thread's
\* lookup does not run while the host thread is inside lines 415-417, where
\* the two threads use the containers at once.
\* ---------------------------------------------------------------------------
\* the capture thread completes get_device_handle (line 296)
LookupStep == th_pc = "lookup" /\ th_pc' # "lookup"

\* it does so while the host thread is registering a device
OverlapsAttach == LookupStep /\ host_pc = "attach_ic"

C17_Keeps ==
  (~OverlapsAttach /\ th_pc' # "none") =>
    /\ \A s \in Slots :
         m_handle_by_device[s] # NullHandle
           => m_handle_by_device'[s] = m_handle_by_device[s]
    /\ (LookupStep /\ th_pc' # "hung") =>
         LET h == received'[Len(received')].handle
         IN /\ m_handle_by_device[th_device] # NullHandle
                 => h = m_handle_by_device[th_device]
            /\ h # NullHandle => m_handle_by_device'[th_device] = h
            /\ h = NullHandle =>
                 /\ m_handle_by_device' = m_handle_by_device
                 /\ m_device_by_handle' = m_device_by_handle
                 /\ get_device_handle_by_hardware_id(
                      m_handle_with_hardware_ids,
                      get_hardware_ids(th_device)) = NullHandle

Registers ==
  Len(m_handle_with_hardware_ids') = Len(m_handle_with_hardware_ids) + 1

C18_AttachStep == Registers => host_arg \in Captured

C18_RegisteredOnlyIfCaptured == [][C18_AttachStep]_vars

\* ---------------------------------------------------------------------------
\* C19: the capture thread is the only writer of m_last_keyboard and
\* m_last_mouse: while the capture thread is live, no step of the host thread
\* (attach, detach, filter change, send_input) changes either of them
\* ---------------------------------------------------------------------------
\* the capture thread has been started and has not left its loop
ThreadLive == th_pc \notin { "none", "exited" }

\* a step of the host thread: every step of thread_func moves th_pc
HostThreadStep == th_pc' = th_pc

C19_HostStep ==
  (ThreadLive /\ HostThreadStep) =>
    /\ m_last_keyboard' = m_last_keyboard
    /\ m_last_mouse' = m_last_mouse

C19_OnlyWriter == [][C19_HostStep]_vars

\* ---------------------------------------------------------------------------
\* C20: every stroke injected by send_keyboard_input (send_mouse_input) goes
\* through the slot of the keyboard (mouse) from which the capture thread most
\* recently received an attributable stroke, never through slot 0 and never
\* through a slot that has not been resolved to a device handle
\* ---------------------------------------------------------------------------
\* the slot of the last stroke of a keyboard (of a mouse) that get_device_handle
\* resolved, NoSlot when there is none
LastSeen(keyboard) ==
  LET seen == { i \in 1..Len(received) :
                  /\ is_keyboard(received[i].device) = keyboard
                  /\ received[i].handle \in Handles }
  IN IF seen = {} THEN NoSlot
     ELSE received[CHOOSE i \in seen : \A j \in seen : j <= i].device

\* the host thread calls interception_send
HostSendStep ==
  /\ Len(injected') = Len(injected) + 1
  /\ injected'[Len(injected')].n = 0

C20_SendStep ==
  HostSendStep =>
    LET e == injected'[Len(injected')]
    IN /\ e.sent.device # NoSlot
       /\ e.sent.device = LastSeen(e.keyboard)
       /\ m_handle_by_device[e.sent.device] # NullHandle

C20_ThroughLastSeen == [][C20_SendStep]_vars

\* ---------------------------------------------------------------------------
\* C21
\* ---------------------------------------------------------------------------
\* the key events written to uinput_fd, as entries of a KeySequence
KeysWritten ==
  LET keys == SelectSeq(uinput, LAMBDA w : w.kind = "key")
  IN [ i \in 1..Len(keys) |-> [ key |-> keys[i].key, state |-> keys[i].state ] ]

\* the entries of seq before its first marker
BeforeMarker(seq) ==
  LET k == CHOOSE k \in 0..Len(seq) :
             /\ \A i \in 1..k : seq[i].state # "OutputOnRelease"
             /\ k < Len(seq) => seq[k + 1].state = "OutputOnRelease"
  IN SubSeq(seq, 1, k)

\* what the step wrote, and what apply_input returned in the step
WrittenNow == SubSeq(uinput', Len(uinput) + 1, Len(uinput'))
ReturnedNow == SubSeq(returned', Len(returned) + 1, Len(returned'))

\* every returned event other than a marker has been written once, in the
\* order returned, or is still held back after a marker; no marker is written
C21_Held ==
  /\ KeysWritten \o NotOnRelease(output_buffer) = NotOnRelease(returned)
  /\ output_buffer # << >> => Head(output_buffer).state = "OutputOnRelease"
  /\ \A i \in 1..Len(uinput) : uinput[i].state # "OutputOnRelease"

\* an iteration of the loop:
\* a repeat while events are held back neither writes nor applies anything;
\* every other key event is applied, and writes the held events, then the
\* events returned for it before their first marker, and all is flushed;
\* an event of another type leaves the held events held
C21_Iteration ==
  /\ iteration'.n = iteration.n + 1
  /\ LET read == [ key |-> 30,
                   state |-> IF iteration'.value = 0 THEN "Up" ELSE "Down" ]
     IN IF iteration'.type = EV_KEY /\ iteration'.value = 2
           /\ output_buffer # << >>
        THEN UNCHANGED << output_buffer, uinput, applied, returned >>
        ELSE IF iteration'.type = EV_KEY
        THEN /\ applied' = Append(applied, read)
             /\ WrittenNow = Written(NotOnRelease(output_buffer))
                               \o Written(BeforeMarker(ReturnedNow))
             /\ flushed' = Len(uinput')
        ELSE UNCHANGED << output_buffer, applied, returned >>

\* C21: in the update loop of main, every event apply_input returns other
\* than an OutputOnRelease marker is written to uinput at most once and in
\* the order returned: the events before the first marker are written and
\* flushed in the same iteration, those after it are held back and written at
\* the next key event that is not a repeat, before any output of that event;
\* a repeat arriving while events are held back neither releases them nor is
\* applied, and markers are never written.
C21_HeldOutputInOrder ==
  [](C21_Held) /\ [][main_pc' = "loop" => C21_Iteration]_vars

\* events were held back, a repeat was suppressed, and the next key event
\* released them before its own output
C21_Witness ==
  /\ iteration.did = "apply"
  /\ iteration.repeats = 1
  /\ applied = << [ key |-> 30, state |-> "Down" ], [ key |-> 30, state |-> "Up" ] >>
  /\ returned = << OutA, Marker, OutB, Marker, OutC, OutA, Marker >>
  /\ uinput = Written(<< OutA, OutB, OutC, OutA >>)
  /\ output_buffer = << Marker >>
  /\ flushed = 4

\* ---------------------------------------------------------------------------
\* C22
\* ---------------------------------------------------------------------------
\* the usages send_key_event inserts for Down(key), in either layer, are held
\* in none of the three sets
NotHeld(key, kb, cs, dk) ==
  /\ key \notin kb
  /\ key >= Key.F1 /\ key <= Key.F12 /\ key # Key.F6 => ConsumerUsage(key) \notin cs
  /\ key = Key.F6 => "DoNotDisturb" \notin dk

\* send_key_event accepted Up(key) while connected
AcceptedUp(key) ==
  /\ SendKeyEvent([ key |-> key, state |-> "Up" ])
  /\ vd_last'.ret

\* C22: no usage stays asserted after its key has been released: once
\* send_key_event has accepted Up(k) while connected, the usage inserted for
\* an earlier Down(k) is in none of the three held-key sets, also when
\* send_event toggled m_fn_key_hold between the Down and the Up. Every usage
\* is inserted for one key only, so what is held after Up(k) of the usages of
\* k was inserted for a Down(k).
C22_ReleasedNotHeld ==
  [][\A key \in TestKeys :
       AcceptedUp(key) => NotHeld(key, m_keyboard', m_consumer', m_desktop')]_vars

\* ---------------------------------------------------------------------------
\* C23
\* ---------------------------------------------------------------------------
\* m_handle_by_device[s] == h, h not null, if and only if
\* m_device_by_handle[h] == s
MutualInverses(by_device, by_handle) ==
  \A s \in Slots, h \in Handles : by_device[s] = h <=> by_handle[h] = s

\* both threads are inside the code that uses the maps
BothInside == host_pc = "attach_ic" /\ th_pc = "lookup"

\* every entry of m_handle_by_device is what the scan of lines 262-267 gives
Scanned ==
  \A s \in Slots :
    m_handle_by_device[s] # NullHandle =>
      m_handle_by_device[s] =
        get_device_handle_by_hardware_id(m_handle_with_hardware_ids,
                                         get_hardware_ids(s))

\* C23: the two identity maps are mutual inverses in every reachable state,
\* so no OS handle is associated with two driver slots and no slot with two
\* handles. They are so when the Interception object is constructed; stated
\* for the steps that start where they are, where every entry is the result
\* of a scan, and where the two threads do not use the maps at once: such a
\* step leaves them mutual inverses.
C23_MutualInverses ==
  [][(/\ ~BothInside
      /\ Scanned
      /\ MutualInverses(m_handle_by_device, m_device_by_handle))
       => MutualInverses(m_handle_by_device', m_device_by_handle')]_vars

\* ---------------------------------------------------------------------------
\* C24: the host thread and the capture thread never access the identity
\* state (m_handle_with_hardware_ids, m_handle_by_device, m_device_by_handle)
\* at the same time with one of them writing: the host thread is never inside
\* lines 415-417 of on_device_attached (set_device_hardware_ids,
\* try_set_last_keyboard, try_set_last_mouse) while the capture thread is
\* inside get_device_handle (line 296).
\* ---------------------------------------------------------------------------
C24_NoConcurrentAccess == ~(host_pc = "attach_ic" /\ th_pc = "lookup")

\* ---------------------------------------------------------------------------
\* C25: match_hardware_ids terminates for every pair of hardware-id lists,
\* including non-matching lists whose last entry is not followed by a null
\* separator and lists with empty entries: whatever the two lists, the call
\* in either order returns true or false.
\* ---------------------------------------------------------------------------
C25_Terminates ==
  fn_pc = "match" =>
    /\ match_hardware_ids(fn_in[1], fn_in[2]) \in { "match", "nomatch" }
    /\ match_hardware_ids(fn_in[2], fn_in[1]) \in { "match", "nomatch" }

====
